---------------------------- MODULE Spec2Model ----------------------------
(***************************************************************************)
(* Model of the inbound conversion core of teams-mcp:                      *)
(*   src/src/utils/html-to-markdown.ts                                     *)
(*     mergeConsecutiveMentions, htmlToMarkdown, formatMessageContent      *)
(*   src/src/tools/search.ts   formatSearchHits (its use of the dispatch)  *)
(*                                                                         *)
(* Strings are sequences of lexemes.  A lexeme is a TLA+ string standing   *)
(* for exactly the characters it spells ("<at", "id=\"", "&nbsp;", ...);   *)
(* the regular expressions of the source are matched lexeme by lexeme,     *)
(* with their character classes (\s, \d, [^<], [^"]) as sets of lexemes.   *)
(***************************************************************************)
EXTENDS Integers, Sequences, FiniteSets, TLC

\* ------------------------------------------------------------------------
\* Bounds of the model
\* ------------------------------------------------------------------------

\* largest number of <at> spans in a generated message body
MaxTags == 3

\* ------------------------------------------------------------------------
\* Lexemes and character classes
\* ------------------------------------------------------------------------

\* the character U+00A0 (what the parser makes of the entity &nbsp;)
NBSP == "U+00A0"

\* \s of the regular expressions, String.prototype.trim: white space
WhiteSpace == {" ", "\n", "\t", NBSP}

\* [ \t\r\n] : the white space Turndown collapses
AsciiWhiteSpace == {" ", "\n", "\t"}

\* \d
Digits == {"0", "1", "2", "3", "4", "5", "6", "7", "8", "9"}

\* lexemes that hold the character <
HasLt == {"<at", "</at>", "<p", "</p>", "<span", "</span>", "<attachment",
          "</attachment>", "<systemEventMessage", "<"}

\* lexemes that hold the character "
HasQuote == {"\"", "id=\"", "data-attachment=\""}

\* String(m.id) for the ids of the model
String(n) == IF n \in 0..9 THEN << ToString(n) >> ELSE << "null" >>

\* ------------------------------------------------------------------------
\* String helpers
\* ------------------------------------------------------------------------

\* first index j >= i with s[j] not in class (Len(s)+1 when there is none)
RECURSIVE SkipWhile(_, _, _)
SkipWhile(s, i, class) ==
  IF i > Len(s) \/ s[i] \notin class THEN i ELSE SkipWhile(s, i + 1, class)

\* first index j >= i with s[j] in class (Len(s)+1 when there is none)
RECURSIVE SkipUntil(_, _, _)
SkipUntil(s, i, class) ==
  IF i > Len(s) \/ s[i] \in class THEN i ELSE SkipUntil(s, i + 1, class)

\* s.substring(a, b) with 1-based a and exclusive b
Substring(s, a, b) == SubSeq(s, a, b - 1)

\* s.substring(a)
SubstringFrom(s, a) == SubSeq(s, a, Len(s))

\* s occurs in t as a contiguous run of lexemes
Contains(t, s) ==
  \E i \in 1..(Len(t) - Len(s) + 1) : SubSeq(t, i, i + Len(s) - 1) = s

\* String.prototype.trim
RECURSIVE TrimStart(_)
TrimStart(s) ==
  IF s # << >> /\ Head(s) \in WhiteSpace THEN TrimStart(Tail(s)) ELSE s

RECURSIVE TrimEnd(_)
TrimEnd(s) ==
  IF s # << >> /\ s[Len(s)] \in WhiteSpace
  THEN TrimEnd(SubSeq(s, 1, Len(s) - 1)) ELSE s

Trim(s) == TrimEnd(TrimStart(s))

\* Array.prototype.join(" ") of a sequence of strings
RECURSIVE JoinSpace(_)
JoinSpace(parts) ==
  IF parts = << >> THEN << >>
  ELSE IF Len(parts) = 1 THEN parts[1]
  ELSE parts[1] \o << " " >> \o JoinSpace(Tail(parts))

\* ------------------------------------------------------------------------
\* Values that may be absent
\* ------------------------------------------------------------------------

Null == [tag |-> "null", val |-> << >>]
Undefined == [tag |-> "undefined", val |-> << >>]
Val(v) == [tag |-> "value", val |-> v]

\* value == null  (null or undefined)
IsNullish(v) == v.tag \in {"null", "undefined"}

\* a user id that is undefined (Map.get of a missing key, a missing field)
NoUserId == "undefined"

\* a mention id that is null
NullId == -1

\* ------------------------------------------------------------------------
\* mergeConsecutiveMentions  (html-to-markdown.ts 51-119)
\* ------------------------------------------------------------------------

\* what a failed property access raises
TypeError == "TypeError"

\* m.mentioned?.user?.id (line 58): undefined at the first link that is
\* null or undefined
optionalChain(m) == IF m.missing # "none" THEN NoUserId ELSE m.userId

\* m.mentioned.user.id (line 59): a TypeError when mentioned or user is
\* null or undefined
plainChain(m) ==
  IF m.missing \in {"mentioned", "user"} THEN TypeError ELSE m.userId

\* line 58 testing the id alone
UsableIdOnly(m) == m.id # NullId

\* the entries the loop of lines 57-60 stores in the map
Usable(m) == ~(m.id = NullId \/ m.userId = NoUserId)

\* atIdToUserId.get(id): the last usable entry for the id wins (Map.set)
RECURSIVE atIdToUserId(_, _)
atIdToUserId(mentions, id) ==
  IF mentions = << >> THEN NoUserId
  ELSE LET m == mentions[Len(mentions)]
       IN IF Usable(m) /\ String(m.id) = id
          THEN m.userId
          ELSE atIdToUserId(SubSeq(mentions, 1, Len(mentions) - 1), id)

\* one match of /<at\s+id="(\d+)">([^<]*)<\/at>/ starting at i:
\* the AtTag it yields, or a record with end = 0 when there is no match at i
NoMatch == [start |-> 0, end |-> 0, id |-> << >>, text |-> << >>]

atRegexAt(html, i) ==
  IF i > Len(html) \/ html[i] # "<at" THEN NoMatch
  ELSE LET a == SkipWhile(html, i + 1, WhiteSpace)     \* \s+
       IN IF a = i + 1 \/ a > Len(html) \/ html[a] # "id=\"" THEN NoMatch
          ELSE LET b == SkipWhile(html, a + 1, Digits)  \* (\d+)
               IN IF b = a + 1 \/ b + 1 > Len(html)
                     \/ html[b] # "\"" \/ html[b + 1] # ">" THEN NoMatch
                  ELSE LET c == SkipUntil(html, b + 2, HasLt)  \* ([^<]*)
                       IN IF c > Len(html) \/ html[c] # "</at>" THEN NoMatch
                          ELSE [start |-> i, end |-> c + 1,
                                id |-> SubSeq(html, a + 1, b - 1),
                                text |-> SubSeq(html, b + 2, c - 1)]

\* html.matchAll(atRegex): the tags in document order (lines 70-80)
RECURSIVE matchAllFrom(_, _, _)
matchAllFrom(html, mentions, i) ==
  IF i > Len(html) THEN << >>
  ELSE LET m == atRegexAt(html, i)
       IN IF m.end = 0 THEN matchAllFrom(html, mentions, i + 1)
          ELSE << [start |-> m.start, end |-> m.end, id |-> m.id,
                   text |-> m.text,
                   userId |-> atIdToUserId(mentions, m.id)] >>
               \o matchAllFrom(html, mentions, m.end)

tagsOf(html, mentions) == matchAllFrom(html, mentions, 1)

\* line 92 without the test of the text between the spans (any gap made
\* of nothing but spaces and &nbsp; is taken for a separator)
SameRunAnyGap(html, prev, curr) ==
  /\ \A k \in prev.end..(curr.start - 1) : html[k] \in {"&nbsp;", " "}
  /\ prev.userId # NoUserId
  /\ curr.userId # NoUserId
  /\ prev.userId = curr.userId

\* line 92 without the truthiness tests: undefined === undefined
SameRunNoGuard(html, prev, curr) ==
  /\ Substring(html, prev.end, curr.start) = << "&nbsp;" >>
  /\ prev.userId = curr.userId

\* the test of line 92
SameRun(html, prev, curr) ==
  /\ Substring(html, prev.end, curr.start) = << "&nbsp;" >>
  /\ prev.userId # NoUserId
  /\ curr.userId # NoUserId
  /\ prev.userId = curr.userId

\* line 92 joining a span only to a group of one span
RECURSIVE groupsOfPairs(_, _, _)
groupsOfPairs(html, tags, i) ==
  IF i = 1 THEN << << tags[1] >> >>
  ELSE LET g == groupsOfPairs(html, tags, i - 1)
           lastGroup == g[Len(g)]
       IN IF SameRun(html, tags[i - 1], tags[i]) /\ Len(lastGroup) = 1
          THEN [g EXCEPT ![Len(g)] = Append(lastGroup, tags[i])]
          ELSE Append(g, << tags[i] >>)

\* the loop of lines 85-97: groups after tags 1..i have been placed
RECURSIVE groupsUpTo(_, _, _)
groupsUpTo(html, tags, i) ==
  IF i = 1 THEN << << tags[1] >> >>
  ELSE LET g == groupsUpTo(html, tags, i - 1)
           lastGroup == g[Len(g)]
       IN IF SameRun(html, tags[i - 1], tags[i])
          THEN [g EXCEPT ![Len(g)] = Append(lastGroup, tags[i])]
          ELSE Append(g, << tags[i] >>)

\* line 113 with the id of the last span of the group
MergedTagLastId(group) ==
  << "<at", " ", "id=\"" >> \o group[Len(group)].id \o << "\"", ">" >>
    \o JoinSpace([k \in 1..Len(group) |-> group[k].text]) \o << "</at>" >>

\* the element written for a merged group (line 113)
MergedTag(group) ==
  << "<at", " ", "id=\"" >> \o group[1].id \o << "\"", ">" >>
    \o JoinSpace([k \in 1..Len(group) |-> group[k].text]) \o << "</at>" >>

\* the loop of lines 103-115 without line 117: the text after the last
\* merged group is not appended
RECURSIVE rebuildWithoutRest(_, _, _, _)
rebuildWithoutRest(html, groups, k, lastEnd) ==
  IF k > Len(groups) THEN << >>
  ELSE LET group == groups[k]
       IN IF Len(group) <= 1
          THEN rebuildWithoutRest(html, groups, k + 1, lastEnd)
          ELSE Substring(html, lastEnd, group[1].start)
               \o MergedTag(group)
               \o rebuildWithoutRest(html, groups, k + 1,
                                     group[Len(group)].end)

\* the loop of lines 103-115 from group k on, with lastEnd
RECURSIVE rebuildFrom(_, _, _, _)
rebuildFrom(html, groups, k, lastEnd) ==
  IF k > Len(groups) THEN SubstringFrom(html, lastEnd)
  ELSE LET group == groups[k]
       IN IF Len(group) <= 1 THEN rebuildFrom(html, groups, k + 1, lastEnd)
          ELSE Substring(html, lastEnd, group[1].start)
               \o MergedTag(group)
               \o rebuildFrom(html, groups, k + 1, group[Len(group)].end)

\* the loop of lines 57-60 raises: an entry passes line 58 and line 59
\* dereferences a link of it that is absent (line 52 returns before it)
mergeThrows(mentions) ==
  /\ Len(mentions) # 0
  /\ \E k \in 1..Len(mentions) :
       Usable(mentions[k]) /\ plainChain(mentions[k]) = TypeError

\* lines 52 and 82 returning the empty string instead of html
mergeEarlyReturnsEmpty(html, mentions) ==
  IF Len(mentions) = 0 THEN << >>
  ELSE LET tags == tagsOf(html, mentions)
       IN IF Len(tags) < 2 THEN << >>
          ELSE rebuildFrom(html, groupsUpTo(html, tags, Len(tags)), 1, 1)

\* lines 103-115 leaving the loop after the first merged group
mergeFirstGroupOnly(html, mentions) ==
  IF Len(mentions) = 0 THEN html
  ELSE LET tags == tagsOf(html, mentions)
       IN IF Len(tags) < 2 THEN html
          ELSE LET groups == groupsUpTo(html, tags, Len(tags))
                   multi == {k \in 1..Len(groups) : Len(groups[k]) > 1}
               IN IF multi = {} THEN html
                  ELSE rebuildFrom(html,
                         << groups[CHOOSE k \in multi :
                                     \A m \in multi : k <= m] >>, 1, 1)

mergeConsecutiveMentions(html, mentions) ==
  IF Len(mentions) = 0 THEN html
  ELSE LET tags == tagsOf(html, mentions)
       IN IF Len(tags) < 2 THEN html
          ELSE rebuildFrom(html, groupsUpTo(html, tags, Len(tags)), 1, 1)


\* ------------------------------------------------------------------------
\* htmlToMarkdown: the string rewrites of lines 138-152
\* ------------------------------------------------------------------------

\* preprocessed.replace(/<\/at>(<at\s)/g, "</at> $1")  (line 141)
RECURSIVE separateFrom(_, _)
separateFrom(s, i) ==
  IF i > Len(s) THEN << >>
  ELSE IF /\ s[i] = "</at>"
          /\ i + 2 <= Len(s)
          /\ s[i + 1] = "<at"
          /\ s[i + 2] \in WhiteSpace
       THEN << "</at>", " ", "<at", s[i + 2] >> \o separateFrom(s, i + 3)
       ELSE << s[i] >> \o separateFrom(s, i + 1)

\* htmlToMarkdown without the replace of line 141
separateNothing(s) == s

separateAdjacentMentions(s) == separateFrom(s, 1)

\* one match of /<attachment(?:\s+id="([^"]*)")?><\/attachment>/gi at i:
\* end = 0 when there is no match at i; hasId tells whether the optional
\* group took part in the match (its capture is undefined otherwise)
NoAttachment == [end |-> 0, hasId |-> FALSE, id |-> << >>]

attachmentRegexAt(s, i) ==
  IF i > Len(s) \/ s[i] # "<attachment" THEN NoAttachment
  ELSE LET a == SkipWhile(s, i + 1, WhiteSpace)      \* \s+
           b == SkipUntil(s, a + 1, HasQuote)        \* ([^"]*)
       IN IF /\ a > i + 1
             /\ a <= Len(s) /\ s[a] = "id=\""
             /\ b + 2 <= Len(s)
             /\ s[b] = "\"" /\ s[b + 1] = ">" /\ s[b + 2] = "</attachment>"
          THEN [end |-> b + 3, hasId |-> TRUE, id |-> SubSeq(s, a + 1, b - 1)]
          ELSE IF /\ i + 2 <= Len(s)
                  /\ s[i + 1] = ">" /\ s[i + 2] = "</attachment>"
               THEN [end |-> i + 3, hasId |-> FALSE, id |-> << >>]
               ELSE NoAttachment

\* the replacer testing id !== undefined instead of its truthiness
attachmentMarkerAnyId(m) ==
  IF m.hasId
  THEN << "<span", " ", "data-attachment=\"" >> \o m.id
       \o << "\"", ">", "{attachment:" >> \o m.id \o << "}", "</span>" >>
  ELSE << "<span", " ", "data-attachment", ">", "{attachment}", "</span>" >>

\* the replacer of lines 148-151: id is falsy when the group did not take
\* part (undefined) and when it captured the empty string
attachmentMarker(m) ==
  IF m.hasId /\ m.id # << >>
  THEN << "<span", " ", "data-attachment=\"" >> \o m.id
       \o << "\"", ">", "{attachment:" >> \o m.id \o << "}", "</span>" >>
  ELSE << "<span", " ", "data-attachment", ">", "{attachment}", "</span>" >>

RECURSIVE attachmentsFrom(_, _)
attachmentsFrom(s, i) ==
  IF i > Len(s) THEN << >>
  ELSE LET m == attachmentRegexAt(s, i)
       IN IF m.end = 0 THEN << s[i] >> \o attachmentsFrom(s, i + 1)
          ELSE attachmentMarker(m) \o attachmentsFrom(s, m.end)

replaceAttachments(s) == attachmentsFrom(s, 1)

\* ------------------------------------------------------------------------
\* turndownService.turndown  (lines 6-38 configure it, 154-155 call it)
\* The HTML parser and the rule engine on the markup the model generates:
\* <p>, <at>, <span>, <attachment>, <systemEventMessage>, text and entities.
\* ------------------------------------------------------------------------

\* the start of a start tag, and the nodeName of its element
NodeNameOf ==
  [l \in {"<at", "<p", "<span", "<attachment", "<systemEventMessage"} |->
     CASE l = "<at" -> "AT"
       [] l = "<p" -> "P"
       [] l = "<span" -> "SPAN"
       [] l = "<attachment" -> "ATTACHMENT"
       [] l = "<systemEventMessage" -> "SYSTEMEVENTMESSAGE"]

\* end tags, and the nodeName they close
ClosedBy ==
  [l \in {"</at>", "</p>", "</span>", "</attachment>"} |->
     CASE l = "</at>" -> "AT"
       [] l = "</p>" -> "P"
       [] l = "</span>" -> "SPAN"
       [] l = "</attachment>" -> "ATTACHMENT"]

\* character references the parser decodes
DecodeEntity(l) ==
  CASE l = "&nbsp;" -> NBSP
    [] l = "&lt;" -> "<"
    [] l = "&gt;" -> ">"
    [] l = "&amp;" -> "&"
    [] OTHER -> l

\* Turndown's block elements among the elements of the model
BlockNames == {"P"}

TextTok(d) == [type |-> "text", name |-> "", data |-> d, attrs |-> {}]
OpenTok(n, as) == [type |-> "open", name |-> n, data |-> "", attrs |-> as]
CloseTok(n) == [type |-> "close", name |-> n, data |-> "", attrs |-> {}]

\* the tokenizer: start tags (up to their > or />, the self-closing mark of
\* a non-void element is ignored), end tags, text with decoded entities
RECURSIVE tokenizeFrom(_, _)
tokenizeFrom(s, i) ==
  IF i > Len(s) THEN << >>
  ELSE IF s[i] \in DOMAIN NodeNameOf
       THEN LET j == SkipUntil(s, i + 1, {">", "/>"})
            IN IF j > Len(s) THEN << >>
               ELSE << OpenTok(NodeNameOf[s[i]],
                               {s[k] : k \in (i + 1)..(j - 1)}
                                 \cap {"data-attachment=\"", "data-attachment"}) >>
                    \o tokenizeFrom(s, j + 1)
       ELSE IF s[i] \in DOMAIN ClosedBy
            THEN << CloseTok(ClosedBy[s[i]]) >> \o tokenizeFrom(s, i + 1)
            ELSE << TextTok(DecodeEntity(s[i])) >> \o tokenizeFrom(s, i + 1)

RemoveAt(seq, k) == SubSeq(seq, 1, k - 1) \o SubSeq(seq, k + 1, Len(seq))

\* prevText.data.replace(/ $/, "") on the last text kept since a block edge
StripPrevText(acc, lastText) ==
  IF lastText > 0 /\ acc[lastText].data = " " THEN RemoveAt(acc, lastText)
  ELSE acc

\* collapseWhitespace: runs of [ \t\r\n] become one space, dropped at the
\* start of a block, after a space, and at the end of a block
RECURSIVE collapseFrom(_, _, _, _)
collapseFrom(toks, i, acc, lastText) ==
  IF i > Len(toks) THEN StripPrevText(acc, lastText)
  ELSE LET t == toks[i]
       IN IF t.type = "text"
          THEN LET d == IF t.data \in AsciiWhiteSpace THEN " " ELSE t.data
               IN IF d = " " /\ (lastText = 0 \/ acc[lastText].data = " ")
                  THEN collapseFrom(toks, i + 1, acc, lastText)
                  ELSE collapseFrom(toks, i + 1, Append(acc, TextTok(d)),
                                    Len(acc) + 1)
          ELSE IF t.name \in BlockNames
               THEN collapseFrom(toks, i + 1,
                                 Append(StripPrevText(acc, lastText), t), 0)
               ELSE collapseFrom(toks, i + 1, Append(acc, t), lastText)

collapseWhitespace(toks) == collapseFrom(toks, 1, << >>, 0)

ElemNode(t, kids) ==
  [type |-> "elem", name |-> t.name, data |-> "", attrs |-> t.attrs,
   kids |-> kids]
TextNode(t) ==
  [type |-> "text", name |-> "", data |-> t.data, attrs |-> {},
   kids |-> << >>]

\* tree construction: an element ends at its end tag, at the end tag of an
\* open ancestor, or at the end of the input; other end tags are ignored
RECURSIVE buildFrom(_, _, _)
buildFrom(toks, i, open) ==
  IF i > Len(toks) THEN [kids |-> << >>, next |-> i]
  ELSE LET t == toks[i]
       IN CASE t.type = "text" ->
                 LET r == buildFrom(toks, i + 1, open)
                 IN [kids |-> << TextNode(t) >> \o r.kids, next |-> r.next]
            [] t.type = "close" ->
                 IF t.name \in open THEN [kids |-> << >>, next |-> i]
                 ELSE buildFrom(toks, i + 1, open)
            [] t.type = "open" ->
                 LET inner == buildFrom(toks, i + 1, open \cup {t.name})
                     own == /\ inner.next <= Len(toks)
                            /\ toks[inner.next].name = t.name
                     rest == buildFrom(toks,
                                       IF own THEN inner.next + 1
                                       ELSE inner.next, open)
                 IN [kids |-> << ElemNode(t, inner.kids) >> \o rest.kids,
                     next |-> rest.next]

\* the children of the root element Turndown parses the input into
RootNode(s) == buildFrom(collapseWhitespace(tokenizeFrom(s, 1)), 1, {}).kids

\* node.textContent
RECURSIVE textContent(_)
RECURSIVE textContentOf(_)
textContentOf(kids) ==
  IF kids = << >> THEN << >>
  ELSE textContent(kids[1]) \o textContentOf(Tail(kids))
textContent(node) ==
  IF node.type = "text" THEN << node.data >> ELSE textContentOf(node.kids)

AllWhiteSpace(s) == \A k \in 1..Len(s) : s[k] \in WhiteSpace

\* node.isBlank (the model has no void or meaningful-when-blank element)
isBlank(node) == AllWhiteSpace(textContent(node))

\* Turndown's escape of Markdown syntax in a text node: of the lexemes of
\* the model only the underscore of "file_1" is escaped
escape(d) == IF d = "file_1" THEN "file\\_1" ELSE d

\* the filters of the three custom rules (lines 19-38)
teamsMentionFilter(node) == node.name = "AT"
teamsAttachmentFilter(node) ==
  node.name = "SPAN"
    /\ node.attrs \cap {"data-attachment=\"", "data-attachment"} # {}
\* the system-event filter matching the sentinel anywhere in the text
teamsSystemEventFilterSubstring(node) ==
  \/ node.name = "SYSTEMEVENTMESSAGE"
  \/ \E k \in 1..Len(textContent(node)) :
       textContent(node)[k] \in {"systemEventMessage", "systemEventMessage/"}

teamsSystemEventFilter(node) ==
  \/ node.name = "SYSTEMEVENTMESSAGE"
  \/ Trim(textContent(node)) = << "systemEventMessage/" >>

\* rules.forNode + rule.replacement: the blank rule first, then the added
\* rules, last added first, then the CommonMark paragraph, then the default
replacement(node, content) ==
  CASE isBlank(node) ->
         IF node.name \in BlockNames THEN << "\n", "\n" >> ELSE << >>
    [] ~isBlank(node) /\ teamsSystemEventFilter(node) -> << >>
    [] ~isBlank(node) /\ ~teamsSystemEventFilter(node)
         /\ teamsAttachmentFilter(node) -> content
    [] ~isBlank(node) /\ ~teamsSystemEventFilter(node)
         /\ ~teamsAttachmentFilter(node) /\ teamsMentionFilter(node) ->
         << "@" >> \o content
    [] OTHER ->
         IF node.name \in BlockNames
         THEN << "\n", "\n" >> \o content \o << "\n", "\n" >>
         ELSE content

\* trimTrailingNewlines, trimLeadingNewlines and join of Turndown
RECURSIVE trimTrailingNewlines(_)
trimTrailingNewlines(s) ==
  IF s # << >> /\ s[Len(s)] = "\n"
  THEN trimTrailingNewlines(SubSeq(s, 1, Len(s) - 1)) ELSE s

RECURSIVE trimLeadingNewlines(_)
trimLeadingNewlines(s) ==
  IF s # << >> /\ Head(s) = "\n" THEN trimLeadingNewlines(Tail(s)) ELSE s

Max(a, b) == IF a > b THEN a ELSE b

join(output, repl) ==
  LET s1 == trimTrailingNewlines(output)
      s2 == trimLeadingNewlines(repl)
      nls == Max(Len(output) - Len(s1), Len(repl) - Len(s2))
  IN s1 \o SubSeq(<< "\n", "\n" >>, 1, IF nls > 2 THEN 2 ELSE nls) \o s2

\* flankingWhitespace of an inline element: the white space at the edges
\* of its text moves outside its replacement
leadingWhiteSpace(s) == SubSeq(s, 1, SkipWhile(s, 1, WhiteSpace) - 1)
trailingWhiteSpace(s) ==
  IF AllWhiteSpace(s) THEN << >>
  ELSE SubSeq(s, Len(TrimEnd(s)) + 1, Len(s))

\* process and replacementForNode
RECURSIVE process(_)
RECURSIVE replacementForNode(_)
process(kids) ==
  IF kids = << >> THEN << >>
  ELSE LET node == kids[Len(kids)]
           before == process(SubSeq(kids, 1, Len(kids) - 1))
       IN IF node.type = "text"
          THEN join(before, << escape(node.data) >>)
          ELSE join(before, replacementForNode(node))
replacementForNode(node) ==
  LET inner == process(node.kids)
      tc == textContent(node)
      lead == IF node.name \in BlockNames THEN << >>
              ELSE leadingWhiteSpace(tc)
      trail == IF node.name \in BlockNames THEN << >>
               ELSE trailingWhiteSpace(tc)
      content == IF lead # << >> \/ trail # << >> THEN Trim(inner)
                 ELSE inner
  IN lead \o replacement(node, content) \o trail

\* postProcess: output.replace(/^[\t\r\n]+/, "").replace(/[\t\r\n\s]+$/, "")
RECURSIVE stripLeadingBreaks(_)
stripLeadingBreaks(s) ==
  IF s # << >> /\ Head(s) \in {"\n", "\t"} THEN stripLeadingBreaks(Tail(s))
  ELSE s

turndown(input) ==
  IF input = << >> THEN << >>
  ELSE TrimEnd(stripLeadingBreaks(process(RootNode(input))))

\* .replace(/\u00A0/g, " ")  (line 156)
normalizeNbsp(s) == [k \in 1..Len(s) |-> IF s[k] = NBSP THEN " " ELSE s[k]]


\* ------------------------------------------------------------------------
\* htmlToMarkdown and formatMessageContent, statement by statement
\* ------------------------------------------------------------------------

\* a local or a parameter that has not been assigned yet
Unset == [tag |-> "unset", val |-> << >>]

\* the guard of lines 131-133 without the trim: !html
isEmptyInputNoTrim(html) == html = << >>

\* the guard of lines 131-133: !html || html.trim() === ""
isEmptyInput(html) == html = << >> \/ Trim(html) = << >>

\* line 136: mentions ? mergeConsecutiveMentions(html, mentions) : html
\* (an array, even an empty one, is truthy; null and undefined are not)
mergeStep(html, mentions) ==
  IF mentions.tag = "value" THEN mergeConsecutiveMentions(html, mentions.val)
  ELSE html

\* lines 154 and 157 without line 156: the non-breaking spaces are kept
convertStepKeepsNbsp(preprocessed) == Trim(turndown(preprocessed))

\* turndown raises a TypeError for an input that is not a string
canConvert(input) == input.tag = "value"

\* lines 154-157: turndown, then the non-breaking spaces, then trim
convertStep(preprocessed) == Trim(normalizeNbsp(turndown(preprocessed)))

\* formatMessageContent trimming what it returns as raw
formatRawTrims(content, format) ==
  IF IsNullish(content) THEN [do |-> "return", value |-> content]
  ELSE IF format = "raw"
       THEN [do |-> "return", value |-> Val(Trim(content.val))]
       ELSE [do |-> "convert", value |-> Unset]

\* formatMessageContent coercing an absent content to the empty string
formatCoercesAbsent(content, format) ==
  IF IsNullish(content) THEN [do |-> "return", value |-> Val(<< >>)]
  ELSE IF format = "raw" THEN [do |-> "return", value |-> content]
  ELSE [do |-> "convert", value |-> Unset]

\* formatMessageContent (lines 173-181): "return" with the value returned,
\* or "convert" when it delegates to htmlToMarkdown
formatMessageContent(content, format) ==
  IF IsNullish(content) THEN [do |-> "return", value |-> content]
  ELSE IF format = "raw" THEN [do |-> "return", value |-> content]
  ELSE [do |-> "convert", value |-> Unset]

\* hit.resource.body?.content  (search.ts line 22)
bodyContent(hit) == IF hit.hasBody THEN hit.content ELSE Undefined

\* ------------------------------------------------------------------------
\* The inputs of the model
\* ------------------------------------------------------------------------

Users == {"user-A", "user-B"}

\* whom the k-th span of a body mentions, as the mentions array tells it:
\* a user, no entry for the span id, or entries that cannot be used (one
\* with a null id and one without mentioned.user.id)
Who == Users \cup {"noentry", "unusable"}

\* what stands between two consecutive spans
SepNames == {"nbsp", "none", "space", "comma", "nbsp2"}
SepOf(name) ==
  CASE name = "nbsp" -> << "&nbsp;" >>
    [] name = "none" -> << >>
    [] name = "space" -> << " " >>
    [] name = "comma" -> << "," >>
    [] name = "nbsp2" -> << "&nbsp;", "&nbsp;" >>

\* the text of the k-th span (Graph gives one word of the name per span)
Names == << "Brunno", "Joyran", "Pereira", "Soares", "Leite", "Pessoa" >>
NameOf(k) == Names[((k - 1) % Len(Names)) + 1]

\* <at id="k-1">text</at>
AtOpen(k) == << "<at", " ", "id=\"" >> \o String(k - 1) \o << "\"", ">" >>
AtTag(k, text) == AtOpen(k) \o text \o << "</at>" >>

BaseShape ==
  [kind |-> "blank", n |-> 0, sep |-> << >>, who |-> << >>,
   marr |-> "undefined", layout |-> "bare", lead |-> "none",
   para |-> "none", id |-> "noattr", ws |-> << >>]

\* message bodies of mention spans, with a mentions array ...
MentionShapesWithArray ==
  UNION { { [BaseShape EXCEPT !.kind = "mention", !.n = n, !.sep = sep,
                              !.who = who, !.marr = "array",
                              !.layout = layout] :
              sep \in [1..(n - 1) -> SepNames],
              who \in [1..n -> Who],
              layout \in {"bare", "p"} } : n \in 0..MaxTags }

\* ... and without one (null or undefined); the layout "edge" puts a
\* non-breaking space and a space at both ends of the body
MentionShapesWithoutArray ==
  UNION { { [BaseShape EXCEPT !.kind = "mention", !.n = n, !.sep = sep,
                              !.who = [k \in 1..n |-> "noentry"],
                              !.marr = marr, !.layout = layout] :
              sep \in [1..(n - 1) -> SepNames],
              marr \in {"null", "undefined"},
              layout \in {"bare", "p", "edge"} } : n \in 0..MaxTags }

\* empty and white-space-only bodies
BlankShapes ==
  { [BaseShape EXCEPT !.kind = "blank", !.ws = ws] :
      ws \in {<< >>, << " ", " ", " " >>, << "\n", "\t" >>, << NBSP >>} }

\* an attachment placeholder: without id attribute, or with an id
AttachmentIds == {"noattr", "", "abc123", "file_1"}
AttachmentShapes ==
  { [BaseShape EXCEPT !.kind = "attachment", !.para = para, !.id = id,
                      !.marr = marr] :
      para \in {"none", "file"}, id \in AttachmentIds,
      marr \in {"undefined", "array"} }

\* a paragraph, after a <systemEventMessage/> marker or not
ParaKinds == {"none", "plain", "prose", "sentinel", "padded"}
SystemEventShapes ==
  { [BaseShape EXCEPT !.kind = "systemEvent", !.lead = lead, !.para = para,
                      !.marr = marr] :
      lead \in {"none", "marker"}, para \in ParaKinds,
      marr \in {"undefined", "array"} }

\* malformed markup: a span that is never closed, an end tag that closes
\* nothing, a paragraph that is never closed, a start tag that never ends
MalformedKinds == {"unclosedAt", "strayClose", "unclosedP", "openTagOnly"}
MalformedShapes ==
  { [BaseShape EXCEPT !.kind = "malformed", !.para = para, !.marr = marr] :
      para \in MalformedKinds, marr \in {"null", "undefined", "array"} }

Shapes ==
  MentionShapesWithArray \cup MentionShapesWithoutArray \cup BlankShapes
    \cup AttachmentShapes \cup SystemEventShapes \cup MalformedShapes

\* the visible text of a paragraph
ParaText(para) ==
  CASE para = "none" -> << >>
    [] para = "file" -> << "See", " ", "the", " ", "file" >>
    [] para = "plain" -> << "Hello", " ", "world" >>
    [] para = "prose" ->
         << "The", " ", "<", "systemEventMessage", ">", " ", "tag" >>
    [] para = "sentinel" -> << "systemEventMessage/" >>
    [] para = "padded" -> << " ", "systemEventMessage/", " " >>

\* its markup: the characters < and > of text are written as entities
EncodeEntity(l) ==
  CASE l = "<" -> "&lt;"
    [] l = ">" -> "&gt;"
    [] OTHER -> l
ParaHtml(para) ==
  IF para = "none" THEN << >>
  ELSE << "<p", ">" >>
       \o [k \in 1..Len(ParaText(para)) |-> EncodeEntity(ParaText(para)[k])]
       \o << "</p>" >>

AttachmentHtml(id) ==
  IF id = "noattr" THEN << "<attachment", ">", "</attachment>" >>
  ELSE << "<attachment", " ", "id=\"" >>
       \o (IF id = "" THEN << >> ELSE << id >>)
       \o << "\"", ">", "</attachment>" >>

\* the spans k..n of a mention body with their separators
RECURSIVE SpansFrom(_, _)
SpansFrom(sh, k) ==
  IF k > sh.n THEN << >>
  ELSE AtTag(k, << NameOf(k) >>)
       \o (IF k < sh.n THEN SepOf(sh.sep[k]) ELSE << >>)
       \o SpansFrom(sh, k + 1)

MalformedHtml(para) ==
  CASE para = "unclosedAt" ->
         AtOpen(1) \o << "Brunno", "&nbsp;" >> \o AtTag(2, << "Joyran" >>)
    [] para = "strayClose" -> << "</at>", "Hello", " ", "world" >>
    [] para = "unclosedP" -> << "<p", ">", "Hello", " ", "world" >>
    [] para = "openTagOnly" -> << "Hello", "<at", " ", "id=\"" >>

\* the message body of a shape
HtmlOf(sh) ==
  CASE sh.kind = "mention" ->
         IF sh.layout = "p"
         THEN << "<p", ">" >> \o SpansFrom(sh, 1)
              \o << "&nbsp;", "hello", "</p>" >>
         ELSE IF sh.layout = "edge"
         THEN << "&nbsp;", " " >> \o SpansFrom(sh, 1) \o << " ", "&nbsp;" >>
         ELSE SpansFrom(sh, 1)
    [] sh.kind = "blank" -> sh.ws
    [] sh.kind = "attachment" -> ParaHtml(sh.para) \o AttachmentHtml(sh.id)
    [] sh.kind = "systemEvent" ->
         (IF sh.lead = "marker" THEN << "<systemEventMessage", "/>" >>
          ELSE << >>) \o ParaHtml(sh.para)
    [] sh.kind = "malformed" -> MalformedHtml(sh.para)

\* the link of m.mentioned.user.id that an unusable entry for span k lacks:
\* mentioned, user, or the id itself
MissingLink(k) == << "mentioned", "user", "id" >>[((k - 1) % 3) + 1]

\* the entries of the mentions array for span k
EntriesFor(sh, k) ==
  CASE sh.who[k] \in Users ->
         << [id |-> k - 1, userId |-> sh.who[k], missing |-> "none"] >>
    [] sh.who[k] = "noentry" -> << >>
    [] sh.who[k] = "unusable" ->
         << [id |-> NullId, userId |-> "user-A", missing |-> "none"],
            [id |-> k - 1, userId |-> NoUserId, missing |-> MissingLink(k)] >>

RECURSIVE EntriesFrom(_, _)
EntriesFrom(sh, k) ==
  IF k > sh.n THEN << >> ELSE EntriesFor(sh, k) \o EntriesFrom(sh, k + 1)

\* the mentions argument of a shape
MentionsOf(sh) ==
  CASE sh.marr = "null" -> Null
    [] sh.marr = "undefined" -> Undefined
    [] sh.marr = "array" ->
         IF sh.kind = "mention" THEN Val(EntriesFrom(sh, 1))
         ELSE Val(<< [id |-> 0, userId |-> "user-A", missing |-> "none"],
                     [id |-> 1, userId |-> NoUserId,
                      missing |-> "mentioned"] >>)

\* a request: a direct call of formatMessageContent, or a search hit given
\* to formatSearchHits (with a body or without, its content a string or null)
DirectRequests ==
  { [tool |-> "direct", hasBody |-> TRUE, content |-> Val(HtmlOf(sh)),
     mentions |-> MentionsOf(sh), shape |-> sh] : sh \in Shapes }
  \cup
  { [tool |-> "direct", hasBody |-> TRUE, content |-> c,
     mentions |-> m, shape |-> BaseShape] :
      c \in {Null, Undefined}, m \in {Null, Undefined, Val(<< >>)} }

SearchRequests ==
  { [tool |-> "search", hasBody |-> TRUE, content |-> Val(HtmlOf(sh)),
     mentions |-> Undefined, shape |-> sh] :
      sh \in {x \in Shapes : x.marr = "undefined"} }
  \cup
  { [tool |-> "search", hasBody |-> b, content |-> c,
     mentions |-> Undefined, shape |-> BaseShape] :
      b \in BOOLEAN, c \in {Null, Undefined} }

Requests == DirectRequests \cup SearchRequests

Formats == {"raw", "markdown"}

\* ------------------------------------------------------------------------
\* The state machine
\* ------------------------------------------------------------------------

VARIABLES
  request,       \* the input: what the caller holds
  content,       \* formatMessageContent's parameter content / html
  mentions,      \* its parameter mentions
  format,        \* its parameter format
  pc,            \* the position in formatMessageContent / htmlToMarkdown
  preprocessed,  \* the local of htmlToMarkdown (line 136)
  result,        \* the value returned
  calls,         \* concurrent conversion calls: argument, position, result
  frames,        \* the local preprocessed of each activation (line 136)
  registry,      \* the rules added to turndownService (lines 19-38)
  call,          \* a tool call: the tool and its arguments
  hpc,           \* the position in the tool handler
  h,             \* the locals of the handler
  thrown,        \* the value the handler's catch clause received
  envelope,      \* what the handler's promise settled with
  environment,   \* process.env, the MSAL token cache and the Graph endpoint
  service,       \* the fields of the GraphService instance
  mocks,         \* what the service has constructed and requested
  authCalls,     \* the getAuthStatus / getClient calls in flight
  manager,       \* the fields of the MCPSessionManager instance
  timers,        \* the handles setTimeout has returned, and their state
  clients,       \* the MCP clients (and spawned transports) constructed
  acts,          \* the activations of the manager's async methods
  paging,        \* the locals of get_chat_messages' page loop
  upload         \* the locals of uploadLargeFile and what it has sent

\* the variables of one call of formatMessageContent
convVars == << request, content, mentions, format, pc, preprocessed, result >>
\* the variables of the concurrent conversion calls
concVars == << calls, frames, registry >>

\* the variables of a tool handler
toolVars == << call, hpc, h, thrown, envelope >>

\* the variables of the GraphService and of its callers
graphVars == << environment, service, mocks, authCalls >>

\* the variables of the MCPSessionManager, its timers and its callers
sessVars == << manager, timers, clients, acts >>

\* the variables of get_chat_messages and of uploadLargeFile
loopVars == << paging, upload >>

vars == << convVars, concVars, toolVars, graphVars, sessVars, loopVars >>

\* the variables a single call of formatMessageContent leaves alone
notConvVars == << concVars, toolVars, graphVars, sessVars, loopVars >>
\* the variables the concurrent conversion calls leave alone
notConcVars == << convVars, toolVars, graphVars, sessVars, loopVars >>
\* the variables a tool handler leaves alone
notToolVars == << convVars, concVars, graphVars, sessVars, loopVars >>
\* the variables the GraphService leaves alone
notGraphVars == << convVars, concVars, toolVars, sessVars, loopVars >>
\* the variables the MCPSessionManager leaves alone
notSessVars == << convVars, concVars, toolVars, graphVars, loopVars >>
\* the variables get_chat_messages and uploadLargeFile leave alone
notLoopVars == << convVars, concVars, toolVars, graphVars, sessVars >>

\* the rules of lines 19-38 in the order of their addRule calls
TeamsRules == << "teamsMention", "teamsAttachment", "teamsSystemEvent" >>

\* no concurrent conversion call is under way
ConcIdle ==
  /\ calls = << >>
  /\ frames = << >>
  /\ registry = TeamsRules

\* no tool call is under way
ToolIdle ==
  /\ call = << >>
  /\ hpc = "none"
  /\ h = << >>
  /\ thrown = << >>
  /\ envelope = << >>

\* the GraphService has not been asked for anything
GraphIdle ==
  /\ environment = << >>
  /\ service = << >>
  /\ mocks = << >>
  /\ authCalls = << >>

\* no MCPSessionManager has been constructed
SessIdle ==
  /\ manager = << >>
  /\ timers = << >>
  /\ clients = << >>
  /\ acts = << >>

\* neither get_chat_messages nor uploadLargeFile is under way
LoopIdle ==
  /\ paging = << >>
  /\ upload = << >>

\* no call of formatMessageContent is under way
ConvIdle ==
  /\ request = BaseShape
  /\ content = Unset
  /\ mentions = Unset
  /\ format = "unset"
  /\ pc = "idle"
  /\ preprocessed = Unset
  /\ result = Unset

Init ==
  /\ request \in Requests
  /\ content = Unset
  /\ mentions = Unset
  /\ format = "unset"
  /\ pc = "idle"
  /\ preprocessed = Unset
  /\ result = Unset
  /\ ConcIdle
  /\ ToolIdle
  /\ GraphIdle
  /\ SessIdle
  /\ LoopIdle

\* a caller (a test, a chat tool) calls formatMessageContent
CallFormatMessageContent ==
  /\ pc = "idle"
  /\ request.tool = "direct"
  /\ \E f \in Formats : format' = f
  /\ content' = request.content
  /\ mentions' = request.mentions
  /\ pc' = "formatMessageContent"
  /\ UNCHANGED << request, preprocessed, result >>
  /\ UNCHANGED notConvVars

\* formatSearchHits (search.ts 18-31) calls it for a hit, without mentions
FormatSearchHits ==
  /\ pc = "idle"
  /\ request.tool = "search"
  /\ \E contentFormat \in Formats : format' = contentFormat
  /\ content' = bodyContent(request)
  /\ mentions' = Undefined
  /\ pc' = "formatMessageContent"
  /\ UNCHANGED << request, preprocessed, result >>
  /\ UNCHANGED notConvVars

\* formatMessageContent, lines 173-181
FormatMessageContent ==
  /\ pc = "formatMessageContent"
  /\ LET d == formatMessageContent(content, format)
     IN IF d.do = "return"
        THEN result' = d.value /\ pc' = "done"
        ELSE result' = result /\ pc' = "htmlToMarkdown"
  /\ UNCHANGED << request, content, mentions, format, preprocessed >>
  /\ UNCHANGED notConvVars

\* htmlToMarkdown, lines 131-133
HtmlToMarkdownGuard ==
  /\ pc = "htmlToMarkdown"
  /\ IF isEmptyInput(content.val)
     THEN result' = Val(<< >>) /\ pc' = "done"
     ELSE result' = result /\ pc' = "merge"
  /\ UNCHANGED << request, content, mentions, format, preprocessed >>
  /\ UNCHANGED notConvVars

\* line 136 followed by line 146: the statement of line 141 is passed over
MergeMentionsThenAttachments ==
  /\ pc = "merge"
  /\ IF mentions.tag = "value" /\ mergeThrows(mentions.val)
     THEN preprocessed' = preprocessed /\ pc' = "threw"
     ELSE preprocessed' = Val(mergeStep(content.val, mentions))
          /\ pc' = "attachments"
  /\ UNCHANGED << request, content, mentions, format, result >>
  /\ UNCHANGED notConvVars

\* line 136
MergeMentions ==
  /\ pc = "merge"
  /\ IF mentions.tag = "value" /\ mergeThrows(mentions.val)
     THEN preprocessed' = preprocessed /\ pc' = "threw"
     ELSE preprocessed' = Val(mergeStep(content.val, mentions))
          /\ pc' = "separate"
  /\ UNCHANGED << request, content, mentions, format, result >>
  /\ UNCHANGED notConvVars

\* line 141
SeparateMentions ==
  /\ pc = "separate"
  /\ preprocessed' = Val(separateAdjacentMentions(preprocessed.val))
  /\ pc' = "attachments"
  /\ UNCHANGED << request, content, mentions, format, result >>
  /\ UNCHANGED notConvVars

\* lines 146-152
ReplaceAttachments ==
  /\ pc = "attachments"
  /\ preprocessed' = Val(replaceAttachments(preprocessed.val))
  /\ pc' = "turndown"
  /\ UNCHANGED << request, content, mentions, format, result >>
  /\ UNCHANGED notConvVars

\* lines 154-157
Convert ==
  /\ pc = "turndown"
  /\ IF canConvert(preprocessed)
     THEN result' = Val(convertStep(preprocessed.val)) /\ pc' = "done"
     ELSE result' = result /\ pc' = "threw"
  /\ UNCHANGED << request, content, mentions, format, preprocessed >>
  /\ UNCHANGED notConvVars

Next ==
  \/ CallFormatMessageContent
  \/ FormatSearchHits
  \/ FormatMessageContent
  \/ HtmlToMarkdownGuard
  \/ MergeMentions
  \/ SeparateMentions
  \/ ReplaceAttachments
  \/ Convert

Spec == Init /\ [][Next]_vars


\* ------------------------------------------------------------------------
\* What the claims speak of, told from the shape of the input
\* ------------------------------------------------------------------------

shape == request.shape

Markdown == format = "markdown"
MentionBody == request.content.tag = "value" /\ shape.kind = "mention"

\* the statements after line 136 has run, and the return
AfterMerge == pc \in {"separate", "attachments", "turndown"}
Done == pc = "done"

\* the conversion has a mentions array that is not empty
HasMentions == mentions.tag = "value" /\ mentions.val # << >>

\* spans k and k+1 are separated by exactly &nbsp; and resolve, through the
\* array, to the same user
Linked(k) ==
  /\ HasMentions
  /\ shape.sep[k] = "nbsp"
  /\ shape.who[k] \in Users
  /\ shape.who[k] = shape.who[k + 1]

\* the run of linked spans that span k lies in
RunStart(k) ==
  CHOOSE i \in 1..k :
    /\ \A j \in i..(k - 1) : Linked(j)
    /\ (i > 1 => ~Linked(i - 1))
RunEnd(k) ==
  CHOOSE j \in k..shape.n :
    /\ \A i \in k..(j - 1) : Linked(i)
    /\ (j < shape.n => ~Linked(j))

\* the texts of spans i..j joined by one space
RunNames(i, j) == JoinSpace([m \in 1..(j - i + 1) |-> << NameOf(i + m - 1) >>])

\* in md the token ending in left and the token @right stand apart, with
\* white space and nothing else between them
Separated(md, left, right) ==
  \E p \in 1..Len(md), q \in 1..(Len(md) - 1) :
    /\ md[p] = left
    /\ md[q] = "@" /\ md[q + 1] = right
    /\ q > p + 1
    /\ \A r \in (p + 1)..(q - 1) : md[r] \in WhiteSpace

\* ------------------------------------------------------------------------
\* C1  A run of two or more consecutive spans separated by exactly &nbsp;
\* that all resolve to the same user is rendered as one mention: after the
\* reconciliation one span with the id of the first span and the texts
\* joined by single spaces, no span of the other members, and in the
\* Markdown "@Brunno Joyran", not "@Brunno @Joyran".
\* ------------------------------------------------------------------------
C1_MergedRunIsOneMention ==
  (MentionBody /\ Markdown /\ (AfterMerge \/ Done)) =>
    \A i \in 1..shape.n :
      (RunStart(i) = i /\ RunEnd(i) > i) =>
        LET j == RunEnd(i)
        IN /\ AfterMerge =>
                /\ Contains(preprocessed.val, AtTag(i, RunNames(i, j)))
                /\ \A m \in (i + 1)..j :
                     ~Contains(preprocessed.val, AtOpen(m))
           /\ Done =>
                /\ Contains(result.val, << "@" >> \o RunNames(i, j))
                /\ \A m \in (i + 1)..j :
                     ~Contains(result.val, << "@", NameOf(m) >>)

C1_Witness ==
  /\ MentionBody /\ Markdown /\ Done
  /\ shape.n >= 2 /\ Linked(1)
  /\ Contains(result.val, << "@", "Brunno", " ", "Joyran" >>)

\* ------------------------------------------------------------------------
\* C2  Two adjacent spans (nothing, or only white space or &nbsp; between
\* them) of different users, and any two adjacent spans when no mentions
\* array is given, come out as two @-tokens with white space between them,
\* never fused; also when the left one is a merged run.
\* ------------------------------------------------------------------------
DifferentUsers(k) ==
  /\ shape.who[k] \in Users
  /\ shape.who[k + 1] \in Users
  /\ shape.who[k] # shape.who[k + 1]

C2_AdjacentMentionsSeparated ==
  (MentionBody /\ Markdown /\ Done) =>
    \A k \in 1..(shape.n - 1) :
      (/\ shape.sep[k] \in {"none", "nbsp", "space", "nbsp2"}
       /\ (DifferentUsers(k) \/ mentions.tag # "value")) =>
        /\ Contains(result.val, << "@" >> \o RunNames(RunStart(k), k))
        /\ Separated(result.val, NameOf(k), NameOf(k + 1))

C2_Witness ==
  /\ MentionBody /\ Markdown /\ Done
  /\ shape.n = 3 /\ Linked(1) /\ shape.sep[2] = "none" /\ DifferentUsers(2)
  /\ Contains(result.val,
              << "@", "Brunno", " ", "Joyran", " ", "@", "Pereira" >>)

\* ------------------------------------------------------------------------
\* C3  Two consecutive spans with anything but exactly one &nbsp; between
\* them are never merged, whatever users they resolve to: the right span
\* keeps its own element and the left one ends with its own text.
\* ------------------------------------------------------------------------
C3_OnlyOneNbspMerges ==
  (MentionBody /\ Markdown /\ (AfterMerge \/ Done)) =>
    \A k \in 1..(shape.n - 1) :
      shape.sep[k] # "nbsp" =>
        /\ AfterMerge =>
             /\ Contains(preprocessed.val,
                         AtOpen(k + 1) \o << NameOf(k + 1) >>)
             /\ Contains(preprocessed.val, << NameOf(k), "</at>" >>)
        /\ Done => Contains(result.val, << "@", NameOf(k + 1) >>)

C3_Witness ==
  /\ MentionBody /\ Markdown /\ Done /\ HasMentions
  /\ shape.n = 2 /\ shape.sep[1] = "nbsp2"
  /\ shape.who[1] = "user-A" /\ shape.who[2] = "user-A"
  /\ Contains(result.val, << "@", "Joyran" >>)

\* ------------------------------------------------------------------------
\* C4  A span whose id has no usable entry in the mentions array (no
\* entry, an entry with a null id, an entry without a user id) is never
\* merged with a neighbour: it stays as it was written, its neighbour
\* keeps its own element, and the conversion returns its mention.
\* ------------------------------------------------------------------------
Unresolved(k) == shape.who[k] \in {"noentry", "unusable"}

C4_UnresolvedSpanStandsAlone ==
  (MentionBody /\ Markdown /\ (AfterMerge \/ Done)) =>
    \A k \in 1..shape.n :
      Unresolved(k) =>
        /\ AfterMerge =>
             /\ Contains(preprocessed.val, AtTag(k, << NameOf(k) >>))
             /\ k < shape.n =>
                  Contains(preprocessed.val,
                           AtOpen(k + 1) \o << NameOf(k + 1) >>)
        /\ Done => Contains(result.val, << "@", NameOf(k) >>)
        /\ (Done /\ k < shape.n) =>
             ~Contains(result.val, << NameOf(k), " ", NameOf(k + 1) >>)

C4_Witness ==
  /\ MentionBody /\ Markdown /\ Done /\ HasMentions
  /\ shape.n = 2 /\ shape.sep[1] = "nbsp"
  /\ shape.who[1] = "unusable" /\ shape.who[2] = "noentry"
  /\ Contains(result.val, << "@", "Brunno", " ", "@", "Joyran" >>)

\* ------------------------------------------------------------------------
\* C5  Without a mentions array (absent, null or empty), or with fewer
\* than two spans in the body, line 136 leaves the HTML unchanged; line 141
\* changes it only where two spans touch; every span is rendered as a
\* mention of its own ("@Brunno @Joyran").
\* ------------------------------------------------------------------------
SpanCount == IF shape.kind = "mention" THEN shape.n ELSE 0

NothingToMerge == ~HasMentions \/ SpanCount < 2

C5_PassThroughWithoutMentions ==
  (Markdown /\ request.content.tag = "value" /\ NothingToMerge) =>
    /\ pc = "separate" => preprocessed = content
    /\ (pc = "attachments" /\ \A k \in 1..(SpanCount - 1) :
                                 shape.sep[k] # "none") =>
         preprocessed = content
    /\ Done => \A k \in 1..SpanCount :
                 Contains(result.val, << "@", NameOf(k) >>)

C5_Witness ==
  /\ MentionBody /\ Markdown /\ Done /\ mentions.tag # "value"
  /\ shape.n = 2 /\ shape.sep[1] = "nbsp" /\ shape.layout = "bare"
  /\ result = Val(<< "@", "Brunno", " ", "@", "Joyran" >>)

\* ------------------------------------------------------------------------
\* C6  formatMessageContent(content, "raw") returns exactly content for
\* every content that is not null or undefined, whatever the mentions.
\* ------------------------------------------------------------------------
C6_RawIsIdentity ==
  (Done /\ format = "raw" /\ content.tag = "value") => result = content

C6_Witness ==
  /\ Done /\ format = "raw" /\ MentionBody /\ HasMentions
  /\ shape.n = 2 /\ Linked(1) /\ shape.layout = "p"
  /\ result = content
  /\ Contains(result.val, << "</at>", "&nbsp;", "<at" >>)

\* ------------------------------------------------------------------------
\* C7  formatMessageContent returns null for null and undefined for
\* undefined, for both formats; formatSearchHits reports content undefined
\* for a hit without a body.
\* ------------------------------------------------------------------------
C7_AbsenceIsPreserved ==
  Done =>
    /\ content = Null => result = Null
    /\ content = Undefined => result = Undefined
    /\ (request.tool = "search" /\ ~request.hasBody) => result = Undefined

C7_Witness ==
  /\ Done /\ Markdown
  /\ request.tool = "search" /\ ~request.hasBody
  /\ result = Undefined

\* ------------------------------------------------------------------------
\* C8  htmlToMarkdown returns the empty string for the empty string and
\* for every input of white space only, and none of its conversion
\* statements has run (preprocessed was never assigned).
\* ------------------------------------------------------------------------
C8_BlankInputGivesEmpty ==
  (Done /\ Markdown /\ content.tag = "value" /\ AllWhiteSpace(content.val))
    => (result = Val(<< >>) /\ preprocessed = Unset)

C8_Witness ==
  /\ Done /\ Markdown
  /\ content = Val(<< " ", " ", " " >>)
  /\ result = Val(<< >>)

\* ------------------------------------------------------------------------
\* C9  (as claimed) Every empty attachment placeholder becomes a marker
\* in the output: "{attachment:<id>}" when the element carries an id
\* attribute, "{attachment}" otherwise; the paragraph before it is kept.
\* ------------------------------------------------------------------------
AttachmentBody == request.content.tag = "value" /\ shape.kind = "attachment"

ClaimedMarker(id) ==
  IF id = "noattr" THEN << "{attachment}" >>
  ELSE << "{attachment:" >> \o (IF id = "" THEN << >> ELSE << id >>)
       \o << "}" >>

ActualMarker(id) ==
  CASE id \in {"noattr", ""} -> << "{attachment}" >>
    [] id = "abc123" -> << "{attachment:", "abc123", "}" >>
    [] id = "file_1" -> << "{attachment:", "file\\_1", "}" >>

SystemEventBody ==
  request.content.tag = "value" /\ shape.kind = "systemEvent"

C10_Original ==
  (SystemEventBody /\ Markdown /\ Done) =>
    /\ (shape.lead = "marker" /\ shape.para = "none") => result = Val(<< >>)
    /\ shape.para \in {"prose", "sentinel", "padded"} =>
         Contains(result.val, Trim(ParaText(shape.para)))

\* ------------------------------------------------------------------------
\* C10  (amended) A lone <systemEventMessage/> converts to the empty
\* string.  The removal rule drops the systemEventMessage element with all
\* the parser nests in it (what follows the marker) and an element whose
\* trimmed text is exactly "systemEventMessage/"; every other paragraph,
\* also one whose text contains the word systemEventMessage, is preserved
\* in full.
\* ------------------------------------------------------------------------
C10_SystemEventRemoval ==
  (SystemEventBody /\ Markdown /\ Done) =>
    /\ shape.lead = "marker" => result = Val(<< >>)
    /\ (shape.lead = "none" /\ shape.para \in {"sentinel", "padded"}) =>
         result = Val(<< >>)
    /\ (shape.lead = "none" /\ shape.para \in {"plain", "prose"}) =>
         result = Val(ParaText(shape.para))

C10_Witness ==
  /\ SystemEventBody /\ Markdown /\ Done
  /\ shape.lead = "none" /\ shape.para = "prose"
  /\ Contains(result.val, << "<", "systemEventMessage", ">" >>)

\* ------------------------------------------------------------------------
\* C11  The string htmlToMarkdown returns neither starts nor ends with
\* white space, and holds no non-breaking space (U+00A0) and no literal
\* "&nbsp;" of a mention separator, whatever the input.
\* ------------------------------------------------------------------------
C11_OutputTrimmedAndNormalized ==
  (Markdown /\ Done /\ content.tag = "value") =>
    /\ result.tag = "value"
    /\ result.val # << >> =>
         /\ Head(result.val) \notin WhiteSpace
         /\ result.val[Len(result.val)] \notin WhiteSpace
    /\ \A k \in 1..Len(result.val) : result.val[k] \notin {NBSP, "&nbsp;"}

C11_Witness ==
  /\ MentionBody /\ Markdown /\ Done
  /\ shape.layout = "edge" /\ shape.n = 2 /\ shape.sep[1] = "nbsp2"
  /\ Head(content.val) = "&nbsp;"
  /\ content.val[Len(content.val)] = "&nbsp;"
  /\ result = Val(<< "@", "Brunno", " ", " ", "@", "Joyran" >>)

\* ------------------------------------------------------------------------
\* C12  htmlToMarkdown and formatMessageContent never throw: for every
\* string (malformed markup included) and every mentions array (span ids
\* without an entry, entries without id, mentioned or user) no statement
\* raises, and the call returns a string.
\* ------------------------------------------------------------------------
C12_NeverThrows ==
  /\ pc # "threw"
  /\ pc \in {"idle", "formatMessageContent", "htmlToMarkdown", "merge",
             "separate", "attachments", "turndown", "done"}
  /\ AfterMerge => preprocessed.tag = "value"
  /\ (Done /\ content.tag = "value") => result.tag = "value"

C12_Witness ==
  /\ MentionBody /\ Markdown /\ Done /\ HasMentions
  /\ shape.n = 3 /\ shape.who = << "unusable", "unusable", "noentry" >>
  /\ \E k \in 1..Len(mentions.val) : mentions.val[k].missing = "mentioned"
  /\ \E k \in 1..Len(mentions.val) : mentions.val[k].missing = "user"
  /\ result.tag = "value"
  /\ Contains(result.val, << "@", "Pereira" >>)

\* ------------------------------------------------------------------------
\* Concurrent conversion calls: several tool calls in flight, each calling
\* htmlToMarkdown; they share turndownService and nothing else.  The calls
\* are interleaved statement by statement, which is finer than the event
\* loop can interleave them (the function has no await).
\* ------------------------------------------------------------------------

\* the number of conversion calls in flight
MaxCalls == 2
Callers == 1..MaxCalls

\* htmlToMarkdown run alone, from its first statement to its return
htmlToMarkdown(html, mnts) ==
  IF isEmptyInput(html) THEN << >>
  ELSE convertStep(replaceAttachments(separateAdjacentMentions(
         mergeStep(html, mnts))))

\* the message bodies the concurrent calls convert
ConcurrentShapes ==
  { [BaseShape EXCEPT !.kind = "mention", !.n = 2, !.sep = << "nbsp" >>,
                      !.who = << "user-A", "user-A" >>, !.marr = "array"],
    [BaseShape EXCEPT !.kind = "mention", !.n = 2, !.sep = << "none" >>,
                      !.who = << "user-A", "user-B" >>, !.marr = "array"],
    [BaseShape EXCEPT !.kind = "attachment", !.para = "file",
                      !.id = "abc123"],
    [BaseShape EXCEPT !.kind = "systemEvent", !.lead = "marker",
                      !.para = "plain"],
    [BaseShape EXCEPT !.kind = "blank", !.ws = << " ", " ", " " >>] }

\* `let preprocessed` declared at module level: one variable for all calls
frameShared(c) == 1

\* `let preprocessed` (line 136) is a local: each activation of
\* htmlToMarkdown has its own
frameOf(c) == c

InitConcurrent ==
  /\ ConvIdle
  /\ ToolIdle
  /\ GraphIdle
  /\ SessIdle
  /\ LoopIdle
  /\ calls \in [Callers -> { [html |-> HtmlOf(sh), mentions |-> MentionsOf(sh),
                              pc |-> "called", result |-> Unset] :
                              sh \in ConcurrentShapes }]
  /\ frames = [c \in Callers |-> Unset]
  /\ registry = TeamsRules

\* lines 131-133
ConcGuard(c) ==
  /\ calls[c].pc = "called"
  /\ calls' = [calls EXCEPT ![c] =
                 IF isEmptyInput(calls[c].html)
                 THEN [@ EXCEPT !.result = Val(<< >>), !.pc = "done"]
                 ELSE [@ EXCEPT !.pc = "merge"]]
  /\ UNCHANGED << frames, registry, notConcVars >>

\* line 136
ConcMerge(c) ==
  /\ calls[c].pc = "merge"
  /\ frames' = [frames EXCEPT ![frameOf(c)] =
                  Val(mergeStep(calls[c].html, calls[c].mentions))]
  /\ calls' = [calls EXCEPT ![c].pc = "separate"]
  /\ UNCHANGED << registry, notConcVars >>

\* line 141
ConcSeparate(c) ==
  /\ calls[c].pc = "separate"
  /\ frames' = [frames EXCEPT ![frameOf(c)] =
                  Val(separateAdjacentMentions(frames[frameOf(c)].val))]
  /\ calls' = [calls EXCEPT ![c].pc = "attachments"]
  /\ UNCHANGED << registry, notConcVars >>

\* lines 146-152
ConcAttachments(c) ==
  /\ calls[c].pc = "attachments"
  /\ frames' = [frames EXCEPT ![frameOf(c)] =
                  Val(replaceAttachments(frames[frameOf(c)].val))]
  /\ calls' = [calls EXCEPT ![c].pc = "turndown"]
  /\ UNCHANGED << registry, notConcVars >>

\* lines 154-157: turndown reads the rules and adds none
ConcConvert(c) ==
  /\ calls[c].pc = "turndown"
  /\ calls' = [calls EXCEPT ![c] =
                 [@ EXCEPT !.result = Val(convertStep(frames[frameOf(c)].val)),
                           !.pc = "done"]]
  /\ UNCHANGED << frames, registry, notConcVars >>

NextConcurrent ==
  \/ \E c \in Callers : ConcGuard(c)
  \/ \E c \in Callers : ConcMerge(c)
  \/ \E c \in Callers : ConcSeparate(c)
  \/ \E c \in Callers : ConcAttachments(c)
  \/ \E c \in Callers : ConcConvert(c)

SpecConcurrent == InitConcurrent /\ [][NextConcurrent]_vars

\* ------------------------------------------------------------------------
\* C13  Conversion calls are independent: however the statements of the
\* calls in flight interleave, each call returns what htmlToMarkdown
\* returns for its own arguments when it runs alone, and the rules of
\* turndownService stay as they were added.
\* ------------------------------------------------------------------------
C13_CallsAreIndependent ==
  /\ registry = TeamsRules
  /\ \A c \in Callers :
       calls[c].pc = "done" =>
         calls[c].result = Val(htmlToMarkdown(calls[c].html,
                                              calls[c].mentions))

C13_Witness ==
  /\ calls[1].pc = "done"
  /\ calls[1].result = Val(<< "@", "Brunno", " ", "Joyran" >>)
  /\ calls[2].pc = "turndown"
  /\ calls[2].html # calls[1].html
  /\ frames[2].tag = "value"
  /\ registry = TeamsRules

\* ------------------------------------------------------------------------
\* The chat and search tool handlers (registerChatTools, registerSearchTools)
\* ------------------------------------------------------------------------

\* the tools that send a message body with mentions ...
MentionTools == {"send_chat_message", "update_chat_message"}
\* ... and all the tools of the two files
ToolNames ==
  MentionTools \cup {"list_chats", "get_chat_messages", "create_chat",
                     "delete_chat_message", "send_file_to_chat",
                     "search_messages", "get_my_mentions"}

\* what a collaborator may throw or reject with
ThrownValues ==
  { [kind |-> "Error", message |-> "Send failed"],
    [kind |-> "string", message |-> "string error"],
    [kind |-> "null", message |-> ""],
    [kind |-> "undefined", message |-> ""] }

\* the mentions argument: at most MaxMentions requests {mention, userId}
MaxMentions == 2
MentionRequests ==
  { [mention |-> "@john", userId |-> "user-A"],
    [mention |-> "@jane", userId |-> "user-B"] }
MentionArgs ==
  {Undefined} \cup
  UNION { { Val(ms) : ms \in [1..n -> MentionRequests] } : n \in 0..MaxMentions }

\* the message argument
Bodies ==
  { << "Hello", " ", "@john", "!" >>,
    << "@john", " ", "and", " ", "@jane" >>,
    << "Hello" >> }

ToolCalls ==
  { [tool |-> t, format |-> f, message |-> b, mentions |-> m] :
      t \in MentionTools, f \in {"text", "markdown"}, b \in Bodies,
      m \in MentionArgs }
  \cup
  { [tool |-> t, format |-> "text", message |-> << >>, mentions |-> Undefined] :
      t \in ToolNames \ MentionTools }

\* markdownToHtml: the message rendered as a paragraph
markdownToHtml(message) == << "<p", ">" >> \o message \o << "</p>" >>

\* what client.api(`/users/${userId}`).select("displayName").get() does:
\* a response with a display name, one with an empty display name, a
\* response that is undefined, or a rejection
LookupOutcomes == {"name", "empty", "noResponse", "rejects"}
DisplayNameOf(userId) == IF userId = "user-A" THEN "John Doe" ELSE "Jane Roe"

\* lines 466-490 without the try/catch around the lookup
resolveMappingNoCatch(mention, outcome) ==
  IF outcome \in {"noResponse", "rejects"}
  THEN [threw |-> TRUE, warned |-> FALSE,
        mapping |-> [mention |-> mention.mention, userId |-> mention.userId,
                     displayName |-> mention.mention]]
  ELSE [threw |-> FALSE, warned |-> FALSE,
        mapping |-> [mention |-> mention.mention, userId |-> mention.userId,
                     displayName |-> IF outcome = "name"
                                     THEN DisplayNameOf(mention.userId)
                                     ELSE mention.mention]]

\* lines 466-490: one turn of the loop over the mentions
resolveMapping(mention, outcome) ==
  [threw |-> FALSE,
   warned |-> outcome \in {"noResponse", "rejects"},
   mapping |-> [mention |-> mention.mention, userId |-> mention.userId,
                displayName |-> IF outcome = "name"
                                THEN DisplayNameOf(mention.userId)
                                ELSE mention.mention]]

\* mentionMappings.unshift(...)
prependMapping(mappings, m) == << m >> \o mappings

\* mentionMappings.push(...)  (lines 474 and 483)
appendMapping(mappings, m) == Append(mappings, m)

\* every occurrence of the lexeme tag in s replaced by repl
RECURSIVE ReplaceAll(_, _, _)
ReplaceAll(s, tag, repl) ==
  IF s = << >> THEN << >>
  ELSE (IF Head(s) = tag THEN repl ELSE << Head(s) >>)
       \o ReplaceAll(Tail(s), tag, repl)

\* processMentionsInHtml: mapping k (id k-1) replaces the occurrences of
\* its mention text by the span <at id="k-1">displayName</at> and appends
\* its entry to the mentions
RECURSIVE injectFrom(_, _, _)
injectFrom(html, mappings, k) ==
  IF k > Len(mappings) THEN [content |-> html, mentions |-> << >>]
  ELSE LET m == mappings[k]
           rest == injectFrom(ReplaceAll(html, m.mention,
                                         AtTag(k, << m.displayName >>)),
                              mappings, k + 1)
       IN [content |-> rest.content,
           mentions |-> << [id |-> k - 1, mentionText |-> m.displayName,
                            userId |-> m.userId] >> \o rest.mentions]

processMentionsInHtml(html, mappings) == injectFrom(html, mappings, 1)

\* the content type left as the format chose it
contentTypeKept(contentType) == contentType

\* line 503: contentType = "html" once mentions were processed
contentTypeWithMentions(contentType) == "html"

\* lines 506-517: the payload; mentions is set only for a non-empty array
messagePayload(body, contentType, finalMentions) ==
  [content |-> body, contentType |-> contentType,
   hasMentions |-> Len(finalMentions) > 0,
   mentions |-> finalMentions]

\* the text of the error in the catch clause: error.message in
\* send_chat_message (line 544), elsewhere
\* error instanceof Error ? error.message : "Unknown error occurred"
errorText(tool, error) ==
  IF tool = "send_chat_message"
  THEN CASE error.kind \in {"null", "undefined"} -> TypeError
         [] error.kind = "string" -> "undefined"
         [] OTHER -> error.message
  ELSE IF error.kind = "Error" THEN error.message
       ELSE "Unknown error occurred"

\* the locals of a handler before its first statement
NoLocals ==
  [content |-> << >>, contentType |-> "unset", mappings |-> << >>,
   outcomes |-> << >>, warnings |-> 0, finalMentions |-> << >>,
   payload |-> Unset, posted |-> FALSE, thrownAt |-> "none"]

InitTools ==
  /\ ConvIdle
  /\ ConcIdle
  /\ GraphIdle
  /\ SessIdle
  /\ LoopIdle
  /\ call \in ToolCalls
  /\ hpc = "getClient"
  /\ h = NoLocals
  /\ thrown = << >>
  /\ envelope = << >>

\* a statement inside the try block throws value v
Throw(v, at) ==
  /\ thrown' = v
  /\ hpc' = "catch"
  /\ h' = [h EXCEPT !.thrownAt = at]
  /\ UNCHANGED << call, envelope >>

\* an outcome of an awaited collaborator: it resolves or rejects
Resolves == [kind |-> "resolves", message |-> ""]
Settles == {Resolves} \cup ThrownValues

\* what graphService.getClient() throws without a client
NotAuthenticated == [kind |-> "Error", message |-> "Not authenticated"]

\* const client = await graphService.getClient()
GetClient ==
  /\ hpc = "getClient"
  /\ \E o \in {Resolves, NotAuthenticated} :
       IF o = Resolves
       THEN /\ hpc' = IF call.tool \in MentionTools THEN "format" ELSE "graph"
            /\ UNCHANGED << call, h, thrown, envelope >>
       ELSE Throw(o, "getClient")
  /\ UNCHANGED notToolVars

\* the Graph request of a tool without mentions
GraphCall ==
  /\ hpc = "graph"
  /\ \E o \in Settles :
       IF o = Resolves
       THEN hpc' = "return" /\ UNCHANGED << call, h, thrown, envelope >>
       ELSE Throw(o, "graph")
  /\ UNCHANGED notToolVars

\* lines 451-461
ProcessFormat ==
  /\ hpc = "format"
  /\ IF call.format = "markdown"
     THEN \E o \in Settles :
            IF o = Resolves
            THEN /\ h' = [h EXCEPT !.content = markdownToHtml(call.message),
                                   !.contentType = "html"]
                 /\ hpc' = "lookup"
                 /\ UNCHANGED << call, thrown, envelope >>
            ELSE Throw(o, "markdownToHtml")
     ELSE /\ h' = [h EXCEPT !.content = call.message, !.contentType = "text"]
          /\ hpc' = "lookup"
          /\ UNCHANGED << call, thrown, envelope >>
  /\ UNCHANGED notToolVars

\* lines 463-490: one turn of the loop over the mentions, or its end
LookupDisplayName ==
  /\ hpc = "lookup"
  /\ IF call.mentions.tag = "value"
          /\ Len(h.mappings) < Len(call.mentions.val)
     THEN \E o \in LookupOutcomes :
            LET mention == call.mentions.val[Len(h.mappings) + 1]
                r == resolveMapping(mention, o)
            IN IF r.threw
               THEN Throw([kind |-> "Error", message |-> "User not found"],
                          "lookup")
               ELSE /\ h' = [h EXCEPT
                               !.mappings = appendMapping(@, r.mapping),
                               !.outcomes = Append(@, o),
                               !.warnings = IF r.warned THEN @ + 1 ELSE @]
                    /\ UNCHANGED << call, hpc, thrown, envelope >>
     ELSE /\ hpc' = "inject"
          /\ UNCHANGED << call, h, thrown, envelope >>
  /\ UNCHANGED notToolVars

\* lines 492-504
InjectMentions ==
  /\ hpc = "inject"
  /\ IF Len(h.mappings) > 0
     THEN LET r == processMentionsInHtml(h.content, h.mappings)
          IN h' = [h EXCEPT !.content = r.content,
                            !.finalMentions = r.mentions,
                            !.contentType = contentTypeWithMentions(@)]
     ELSE h' = h
  /\ hpc' = "payload"
  /\ UNCHANGED << call, thrown, envelope, notToolVars >>

\* lines 506-517
BuildPayload ==
  /\ hpc = "payload"
  /\ h' = [h EXCEPT !.payload =
                      Val(messagePayload(h.content, h.contentType,
                                         h.finalMentions))]
  /\ hpc' = "post"
  /\ UNCHANGED << call, thrown, envelope, notToolVars >>

\* lines 519-521 (post) and the patch of update_chat_message
PostMessage ==
  /\ hpc = "post"
  /\ \E o \in Settles :
       IF o = Resolves
       THEN /\ h' = [h EXCEPT !.posted = TRUE]
            /\ hpc' = "return"
            /\ UNCHANGED << call, thrown, envelope >>
       ELSE Throw(o, "post")
  /\ UNCHANGED notToolVars

\* the return of the try block
ReturnSuccess ==
  /\ hpc = "return"
  /\ envelope' = [isError |-> FALSE, text |-> "success"]
  /\ hpc' = "resolved"
  /\ UNCHANGED << call, h, thrown, notToolVars >>

\* the catch clause: it returns the error envelope, or its own access to
\* error.message throws and the handler's promise is rejected
CatchError ==
  /\ hpc = "catch"
  /\ LET text == errorText(call.tool, thrown)
     IN IF text = TypeError
        THEN /\ envelope' = [isError |-> TRUE, text |-> TypeError]
             /\ hpc' = "rejected"
        ELSE /\ envelope' = [isError |-> TRUE, text |-> text]
             /\ hpc' = "resolved"
  /\ UNCHANGED << call, h, thrown, notToolVars >>

NextTools ==
  \/ GetClient
  \/ GraphCall
  \/ ProcessFormat
  \/ LookupDisplayName
  \/ InjectMentions
  \/ BuildPayload
  \/ PostMessage
  \/ ReturnSuccess
  \/ CatchError

SpecTools == InitTools /\ [][NextTools]_vars

\* ------------------------------------------------------------------------
\* What the claims about the tool handlers speak of
\* ------------------------------------------------------------------------

\* the mentions the caller passed (none when the argument is absent)
Requested == IF call.mentions.tag = "value" THEN call.mentions.val ELSE << >>

\* the lookup for mention k failed
LookupFailed(k) == h.outcomes[k] \in {"noResponse", "rejects"}

\* the loop over the mentions is over and the handler went on
AfterLookups == hpc \in {"inject", "payload", "post", "return"}
AfterInject == hpc \in {"payload", "post", "return"}

\* the ids of the spans <at id="..."> in a body
IdsInHtml(html) ==
  { html[i + 3] : i \in { j \in 1..(Len(html) - 3) :
                            html[j] = "<at" /\ html[j + 2] = "id=\"" } }

\* ------------------------------------------------------------------------
\* C14  In send_chat_message and update_chat_message a failed display-name
\* lookup makes the mapping use the caller's mention text as displayName
\* and logs a warning; the other mentions are still resolved and the
\* message is still sent: no failure of the handler comes from a lookup.
\* ------------------------------------------------------------------------
C14_LookupFailureFallsBack ==
  call.tool \in MentionTools =>
    /\ \A k \in 1..Len(h.mappings) :
         /\ h.mappings[k].mention = Requested[k].mention
         /\ h.mappings[k].userId = Requested[k].userId
         /\ LookupFailed(k) => h.mappings[k].displayName = Requested[k].mention
    /\ h.warnings = Cardinality({k \in 1..Len(h.outcomes) : LookupFailed(k)})
    /\ AfterLookups => Len(h.mappings) = Len(Requested)
    /\ h.thrownAt # "lookup"
    /\ (hpc = "resolved" /\ h.posted) => ~envelope.isError

C14_Witness ==
  /\ call.tool = "update_chat_message"
  /\ hpc = "resolved" /\ h.posted /\ ~envelope.isError
  /\ h.outcomes = << "rejects", "name" >>
  /\ h.warnings = 1
  /\ h.mappings[1].displayName = "@john"
  /\ h.mappings[2].displayName = "Jane Roe"

\* ------------------------------------------------------------------------
\* C15  Once mentions were injected the content type of the body is
\* "html", also when the caller asked for format "text"; a payload whose
\* content type is "text" carries no mentions.
\* ------------------------------------------------------------------------
C15_MentionsForceHtml ==
  call.tool \in MentionTools =>
    /\ (AfterInject /\ h.finalMentions # << >>) => h.contentType = "html"
    /\ h.payload.tag = "value" =>
         (h.payload.val.contentType = "text" => ~h.payload.val.hasMentions)

C15_Witness ==
  /\ call.tool = "send_chat_message" /\ call.format = "text"
  /\ h.posted
  /\ h.payload.val.hasMentions
  /\ h.payload.val.contentType = "html"
  /\ IdsInHtml(h.payload.val.content) = {"0"}

\* the ids and the entries of the output mentions: sequential from 0, one
\* entry {id, mentionText = displayName, mentioned.user.id} per mapping,
\* in the caller's order
EntriesInOrder ==
  /\ Len(h.finalMentions) = Len(Requested)
  /\ \A k \in 1..Len(h.finalMentions) :
       /\ h.finalMentions[k].id = k - 1
       /\ h.finalMentions[k].mentionText = h.mappings[k].displayName
       /\ h.finalMentions[k].userId = Requested[k].userId

\* every id of a span in the body has exactly one entry
EveryIdHasOneEntry ==
  \A id \in IdsInHtml(h.content) :
    Cardinality({k \in 1..Len(h.finalMentions) :
                   String(h.finalMentions[k].id) = << id >>}) = 1

\* entry k has a span with its id in the body
EntryHasSpan(k) ==
  \E id \in IdsInHtml(h.content) : String(h.finalMentions[k].id) = << id >>

\* the mention text of request k stands in the message and no earlier
\* request has the same mention text
FirstWithOccurrence(k) ==
  /\ \E i \in 1..Len(call.message) : call.message[i] = Requested[k].mention
  /\ \A j \in 1..(k - 1) : Requested[j].mention # Requested[k].mention

C17_HandlersNeverThrow ==
  /\ hpc # "rejected"
  /\ (hpc = "resolved" /\ envelope.isError) =>
       envelope.text \notin {"", TypeError}


\* ------------------------------------------------------------------------
\* GraphService (services/graph.ts): delegated scopes
\* ------------------------------------------------------------------------

FULL_ACCESS_SCOPES ==
  << "User.Read", "User.ReadBasic.All", "Team.ReadBasic.All",
     "Channel.ReadBasic.All", "ChannelMessage.Read.All",
     "ChannelMessage.Send", "TeamMember.Read.All", "Chat.ReadBasic",
     "Chat.ReadWrite" >>

READ_ONLY_SCOPES ==
  << "User.Read", "User.ReadBasic.All", "Team.ReadBasic.All",
     "Channel.ReadBasic.All", "ChannelMessage.Read.All",
     "TeamMember.Read.All", "Chat.ReadBasic", "Chat.Read" >>

getDelegatedScopesAlwaysFull(readOnly) == FULL_ACCESS_SCOPES
\* readOnly ? READ_ONLY_SCOPES : FULL_ACCESS_SCOPES
getDelegatedScopes(readOnly) ==
  IF readOnly THEN READ_ONLY_SCOPES ELSE FULL_ACCESS_SCOPES

\* String.prototype.toLowerCase, lexeme by lexeme
toLowerCase(s) ==
  [i \in DOMAIN s |->
     CASE s[i] \in {"TRUE", "True"} -> "true"
       [] s[i] \in {"YES", "Yes"} -> "yes"
       [] s[i] = "ON" -> "on"
       [] OTHER -> s[i]]

\* process.env.TEAMS_MCP_READ_ONLY?.toLowerCase()?.trim() is one of
\* "true", "1", "yes"
isReadOnlyMode(env) ==
  /\ env.TEAMS_MCP_READ_ONLY.tag = "value"
  /\ Trim(toLowerCase(env.TEAMS_MCP_READ_ONLY.val))
       \in {<< "true" >>, << "1" >>, << "yes" >>}

\* ------------------------------------------------------------------------
\* GraphService: validateToken
\* ------------------------------------------------------------------------

GraphAudience == "https://graph.microsoft.com"

\* The segments of the tokens that are tried, with the text each stands
\* for: a JSON object with its aud member (missing, a string, or an array
\* of strings), the JSON null, or no JSON. A JWT segment is the base64url
\* encoding of its text (RFC 7515): the alphabet of base64url has - and _
\* where the alphabet of base64 has + and /. A segment whose name ends in
\* "/url" holds one of - and _ (its text has a character that encodes to
\* one, e.g. the ? of {"aud":"https://graph.microsoft.com","x":"ab?"}).
Base64UrlText ==
  LET Other == "https://other-service.com"
      NoAud == [kind |-> "undefined", items |-> << >>]
      AudString(a) == [kind |-> "string", items |-> << a >>]
      AudArray(as) == [kind |-> "array", items |-> as]
      JsonObject(aud) == [json |-> "object", aud |-> aud]
  IN
  [seg \in {"aud=graph", "aud=graph/url", "aud=other", "aud=[graph]",
            "aud=[graph,other]", "aud=[graph,other]/url", "aud=[other]",
            "noaud", "null", "notjson", "header", "signature"} |->
     CASE seg \in {"aud=graph", "aud=graph/url"} ->
            JsonObject(AudString(GraphAudience))
       [] seg = "aud=other" -> JsonObject(AudString(Other))
       [] seg = "aud=[graph]" -> JsonObject(AudArray(<< GraphAudience >>))
       [] seg \in {"aud=[graph,other]", "aud=[graph,other]/url"} ->
            JsonObject(AudArray(<< GraphAudience, Other >>))
       [] seg = "aud=[other]" -> JsonObject(AudArray(<< Other >>))
       [] seg \in {"noaud", "header"} -> JsonObject(NoAud)
       [] seg = "null" -> [json |-> "null", aud |-> NoAud]
       [] OTHER -> [json |-> "invalid", aud |-> NoAud]]

\* the segments that hold a character outside the alphabet of base64
OutsideBase64 ==
  {"aud=graph/url", "aud=[graph,other]/url", "invalid-token"}

\* atob(data): throws for a character outside the alphabet of base64 and
\* for a length no base64 text has
atob(data) ==
  IF Len(data) = 1 /\ data[1] \in DOMAIN Base64UrlText
       /\ data[1] \notin OutsideBase64
  THEN [threw |-> FALSE, val |-> Base64UrlText[data[1]]]
  ELSE [threw |-> TRUE, val |-> Base64UrlText["notjson"]]

\* JSON.parse(text): throws for a text that is not JSON
JSONparse(text) == [threw |-> text.json = "invalid", val |-> text]

\* token.split(".")
RECURSIVE splitFrom(_, _, _)
splitFrom(s, i, current) ==
  IF i > Len(s) THEN << current >>
  ELSE IF s[i] = "." THEN << current >> \o splitFrom(s, i + 1, << >>)
  ELSE splitFrom(s, i + 1, Append(current, s[i]))

split(s) == splitFrom(s, 1, << >>)

\* lines 471-481: the try block; TRUE when the token passes
payloadPasses(segment) ==
  LET decoded == atob(segment)
      parsed == JSONparse(decoded.val)
      payload == parsed.val
      \* Array.isArray(payload.aud) ? payload.aud : [payload.aud]
      audiences == IF payload.aud.kind \in {"array", "string"}
                   THEN payload.aud.items ELSE << "undefined" >>
  IN  /\ ~decoded.threw
      /\ ~parsed.threw
      /\ payload.json # "null"              \* null.aud throws a TypeError
      /\ \E i \in DOMAIN audiences : audiences[i] = GraphAudience

\* validateToken(token): the token, or undefined
validateToken(token) ==
  LET tokenSplits == split(token)
  IN  IF Len(tokenSplits) # 3 THEN Undefined
      ELSE IF payloadPasses(tokenSplits[2]) THEN Val(token)
      ELSE Undefined

\* the values of AUTH_TOKEN that are tried
Tokens ==
  {<< "header", ".", p, ".", "signature" >> :
     p \in {"aud=graph", "aud=graph/url", "aud=other", "aud=[graph]",
            "aud=[graph,other]", "aud=[graph,other]/url", "aud=[other]",
            "noaud", "null", "notjson"}}
    \cup {<< "invalid-token" >>, << >>,
          << "header", ".", "aud=graph" >>,
          << "header", ".", "aud=graph", ".", "signature", ".", "extra" >>}

\* ------------------------------------------------------------------------
\* GraphService: initializeClient, getAuthStatus, getClient
\* ------------------------------------------------------------------------

MaxAuthCalls == 2
AuthCallers == 1..MaxAuthCalls

\* process.env, the MSAL token cache and the Graph endpoint. The cache:
\* getAllAccounts resolves with no account, rejects, or resolves with an
\* account, and then acquireTokenSilent resolves with a result, resolves
\* with null, or rejects. me: what client.api("/me").get() does.
Environments ==
  [AUTH_TOKEN : {Unset} \cup {Val(t) : t \in Tokens},
   TEAMS_MCP_READ_ONLY :
     {Unset, Val(<< "TRUE" >>), Val(<< " ", "Yes", " " >>), Val(<< "1" >>),
      Val(<< "false" >>), Val(<< "on" >>)},
   cache : {"noAccounts", "accountsReject", "silentOk", "silentNull",
            "silentRejects"},
   me : {"resolves", "rejects"}]

\* a fresh GraphService (lines 332-337) and the calls made on it
InitGraph ==
  /\ ConvIdle
  /\ ConcIdle
  /\ ToolIdle
  /\ SessIdle
  /\ LoopIdle
  /\ environment \in Environments
  /\ service = [client |-> "undefined", isInitialized |-> FALSE,
                msalApp |-> FALSE, msalAccount |-> FALSE]
  /\ mocks = [initWithMiddleware |-> 0, PublicClientApplication |-> 0,
              silentRequests |-> {}]
  /\ authCalls \in [AuthCallers ->
                      {[op |-> op, pc |-> "initializeClient",
                        status |-> "pending"] :
                         op \in {"getAuthStatus", "getClient"}}]

\* if (envToken): a string is truthy unless it is empty
Truthy(v) == v.tag = "value" /\ v.val # << >>

AuthStep(c, pos, st) ==
  authCalls' = [authCalls EXCEPT ![c].pc = pos, ![c].status = st]

\* line 347: if (this.isInitialized) return
AlreadyInitialized(c) ==
  /\ authCalls[c].pc = "initializeClient"
  /\ service.isInitialized
  /\ AuthStep(c, "afterInitialize", "pending")
  /\ UNCHANGED << environment, service, mocks >>
  /\ UNCHANGED notGraphVars

InitWithEnvTokenAlwaysInitialized(c) ==
  /\ authCalls[c].pc = "initializeClient"
  /\ ~service.isInitialized
  /\ Truthy(environment.AUTH_TOKEN)
  /\ IF validateToken(environment.AUTH_TOKEN.val) # Undefined
     THEN /\ service' = [service EXCEPT !.client = "envToken",
                                        !.isInitialized = TRUE]
          /\ mocks' = [mocks EXCEPT !.initWithMiddleware = @ + 1]
     ELSE /\ service' = [service EXCEPT !.isInitialized = TRUE]
          /\ UNCHANGED mocks
  /\ AuthStep(c, "afterInitialize", "pending")
  /\ UNCHANGED environment
  /\ UNCHANGED notGraphVars
\* lines 351-363: the AUTH_TOKEN branch, which has no await
InitWithEnvToken(c) ==
  /\ authCalls[c].pc = "initializeClient"
  /\ ~service.isInitialized
  /\ Truthy(environment.AUTH_TOKEN)
  /\ IF validateToken(environment.AUTH_TOKEN.val) # Undefined
     THEN /\ service' = [service EXCEPT !.client = "envToken",
                                        !.isInitialized = TRUE]
          /\ mocks' = [mocks EXCEPT !.initWithMiddleware = @ + 1]
     ELSE UNCHANGED << service, mocks >>
  /\ AuthStep(c, "afterInitialize", "pending")
  /\ UNCHANGED environment
  /\ UNCHANGED notGraphVars

\* lines 366-376: new PublicClientApplication, up to the first await
InitWithMsal(c) ==
  /\ authCalls[c].pc = "initializeClient"
  /\ ~service.isInitialized
  /\ ~Truthy(environment.AUTH_TOKEN)
  /\ service' = [service EXCEPT !.msalApp = TRUE]
  /\ mocks' = [mocks EXCEPT !.PublicClientApplication = @ + 1]
  /\ AuthStep(c, "getAllAccounts", "pending")
  /\ UNCHANGED environment
  /\ UNCHANGED notGraphVars

\* acquireTokenSilent({scopes: getDelegatedScopes(isReadOnlyMode()), ...})
silentRequest(env) == getDelegatedScopes(isReadOnlyMode(env))

\* lines 376-387: getAllAccounts has settled; up to the second await
AccountsSettled(c) ==
  /\ authCalls[c].pc = "getAllAccounts"
  /\ IF environment.cache \in {"noAccounts", "accountsReject"}
     THEN /\ AuthStep(c, "afterInitialize", "pending")
          /\ UNCHANGED << service, mocks >>
     ELSE /\ service' = [service EXCEPT !.msalAccount = TRUE]
          /\ mocks' = [mocks EXCEPT !.silentRequests =
                         @ \cup {silentRequest(environment)}]
          /\ AuthStep(c, "acquireTokenSilent", "pending")
  /\ UNCHANGED environment
  /\ UNCHANGED notGraphVars

\* lines 384-405: acquireTokenSilent has settled
SilentSettled(c) ==
  /\ authCalls[c].pc = "acquireTokenSilent"
  /\ IF environment.cache = "silentOk"
     THEN /\ service' = [service EXCEPT !.client = "msal",
                                        !.isInitialized = TRUE]
          /\ mocks' = [mocks EXCEPT !.initWithMiddleware = @ + 1]
     ELSE UNCHANGED << service, mocks >>
  /\ AuthStep(c, "afterInitialize", "pending")
  /\ UNCHANGED environment
  /\ UNCHANGED notGraphVars

\* getAuthStatus, lines 429-433
GetAuthStatusCheck(c) ==
  /\ authCalls[c].pc = "afterInitialize"
  /\ authCalls[c].op = "getAuthStatus"
  /\ IF service.client = "undefined"
     THEN AuthStep(c, "done", "unauthenticated")
     ELSE AuthStep(c, "me", "pending")
  /\ UNCHANGED << environment, service, mocks >>
  /\ UNCHANGED notGraphVars

\* acquireToken (lines 408-426), the auth provider of the MSAL client:
\* TRUE when it returns an access token
acquireToken(svc, env) ==
  /\ svc.msalApp
  /\ svc.msalAccount
  /\ env.cache = "silentOk"

\* getAuthStatus, lines 435-446: the request to /me has settled
MeSettled(c) ==
  /\ authCalls[c].pc = "me"
  /\ IF service.client = "msal" /\ service.msalApp /\ service.msalAccount
     THEN mocks' = [mocks EXCEPT !.silentRequests =
                      @ \cup {silentRequest(environment)}]
     ELSE UNCHANGED mocks
  /\ IF /\ environment.me = "resolves"
        /\ service.client = "msal" => acquireToken(service, environment)
     THEN AuthStep(c, "done", "authenticated")
     ELSE AuthStep(c, "done", "unauthenticated")
  /\ UNCHANGED << environment, service >>
  /\ UNCHANGED notGraphVars

\* getClient, lines 450-457
GetClientCheck(c) ==
  /\ authCalls[c].pc = "afterInitialize"
  /\ authCalls[c].op = "getClient"
  /\ IF service.client = "undefined"
     THEN AuthStep(c, "done", "NotAuthenticated")
     ELSE AuthStep(c, "done", "client")
  /\ UNCHANGED << environment, service, mocks >>
  /\ UNCHANGED notGraphVars

NextGraph ==
  \E c \in AuthCallers :
    \/ AlreadyInitialized(c)
    \/ InitWithEnvToken(c)
    \/ InitWithMsal(c)
    \/ AccountsSettled(c)
    \/ SilentSettled(c)
    \/ GetAuthStatusCheck(c)
    \/ MeSettled(c)
    \/ GetClientCheck(c)

SpecGraph == InitGraph /\ [][NextGraph]_vars

\* ------------------------------------------------------------------------
\* Vocabulary of the claims about the GraphService
\* ------------------------------------------------------------------------

AllAuthCallsDone == \A c \in AuthCallers : authCalls[c].pc = "done"

\* the call reports the authenticated state
ReportsAuthenticated(c) == authCalls[c].status \in {"authenticated", "client"}

\* a token is configured: AUTH_TOKEN holds a non-empty string
TokenSet == Truthy(environment.AUTH_TOKEN)

\* the cache holds an account whose token can be acquired silently
CacheAuthenticates == environment.cache = "silentOk"

\* the token has three dot-separated parts and its payload, read as the
\* base64url text of a JSON object, has an audience (a string or an array)
\* that includes https://graph.microsoft.com
IsGraphToken(token) ==
  LET parts == split(token)
  IN  /\ Len(parts) = 3
      /\ Len(parts[2]) = 1
      /\ parts[2][1] \in DOMAIN Base64UrlText
      /\ Base64UrlText[parts[2][1]].json = "object"
      /\ Base64UrlText[parts[2][1]].aud.kind \in {"string", "array"}
      /\ \E i \in DOMAIN Base64UrlText[parts[2][1]].aud.items :
           Base64UrlText[parts[2][1]].aud.items[i] = GraphAudience

\* ------------------------------------------------------------------------
\* C18  (as claimed) When getAuthStatus or getClient is called several times
\* concurrently on a fresh GraphService that can authenticate, every call
\* reports the authenticated state and Client.initWithMiddleware is called
\* exactly once, whatever the interleaving.
\* ------------------------------------------------------------------------
C18_ConcurrentCallsInitializeOnce ==
  /\ mocks.initWithMiddleware <= 1
  /\ ( /\ AllAuthCallsDone
       /\ environment.me = "resolves"
       /\ \/ TokenSet /\ IsGraphToken(environment.AUTH_TOKEN.val)
                      /\ validateToken(environment.AUTH_TOKEN.val) # Undefined
          \/ ~TokenSet /\ CacheAuthenticates )
       => /\ \A c \in AuthCallers : ReportsAuthenticated(c)
          /\ mocks.initWithMiddleware = 1

\* ------------------------------------------------------------------------
\* C19  (as claimed) When AUTH_TOKEN is set the GraphService never uses
\* MSAL; a token with three dot-separated parts whose payload audience (a
\* string or an array) includes https://graph.microsoft.com yields an
\* authenticated client, and any other token leaves the service
\* unauthenticated.
\* ------------------------------------------------------------------------
C19_EnvTokenDecides ==
  TokenSet =>
    /\ mocks.PublicClientApplication = 0
    /\ ~service.msalApp
    /\ service.client # "msal"
    /\ \A c \in AuthCallers :
         authCalls[c].pc \in {"afterInitialize", "me", "done"} =>
           /\ IsGraphToken(environment.AUTH_TOKEN.val) =>
                service.client = "envToken" /\ service.isInitialized
           /\ ~IsGraphToken(environment.AUTH_TOKEN.val) =>
                service.client = "undefined" /\ ~service.isInitialized

\* ------------------------------------------------------------------------
\* Vocabulary of the claim about the scope sets
\* ------------------------------------------------------------------------

\* the scopes of an array of scopes
ScopeSet(scopes) == {scopes[i] : i \in DOMAIN scopes}

\* the write scopes the claim names
WriteScopes == {"ChannelMessage.Send", "Chat.ReadWrite", "Files.ReadWrite.All"}

\* acquireTokenSilent has been called with a scope array
SilentRequested == mocks.silentRequests # {}

C30_InitializedOnlyWithClient ==
  /\ service.isInitialized => service.client # "undefined"
  /\ \A c \in AuthCallers :
       authCalls[c].op = "getClient" /\ authCalls[c].pc = "done" =>
         (authCalls[c].status = "NotAuthenticated"
            <=> service.client = "undefined")
  /\ (~TokenSet /\ ~CacheAuthenticates) \/
     (TokenSet /\ validateToken(environment.AUTH_TOKEN.val) = Undefined) =>
       /\ ~service.isInitialized
       /\ service.client = "undefined"
  /\ (~TokenSet /\ ~service.isInitialized) =>
       mocks.PublicClientApplication =
         Cardinality({c \in AuthCallers :
                        authCalls[c].pc # "initializeClient"})

\* both calls have failed, each after an initialization attempt of its own
C30_Witness ==
  /\ AllAuthCallsDone
  /\ environment.cache = "silentNull"
  /\ ~service.isInitialized
  /\ mocks.PublicClientApplication = MaxAuthCalls
  /\ \E c \in AuthCallers : authCalls[c].status = "NotAuthenticated"


\* ------------------------------------------------------------------------
\* mergeConsecutiveMentions as a function: applied to a body of up to
\* MaxRun spans, and then to its own output
\* ------------------------------------------------------------------------

MaxRun == 4

\* bodies of up to MaxRun spans of two users and of nobody the array knows,
\* with an array that has the entries of the spans it knows
RunShapes ==
  UNION { { [BaseShape EXCEPT !.kind = "mention", !.n = n, !.sep = sep,
                              !.who = who, !.marr = "array",
                              !.layout = layout] :
              sep \in [1..(n - 1) -> {"nbsp", "none", "space"}],
              who \in [1..n -> Users \cup {"noentry"}],
              layout \in {"bare", "p"} } : n \in 0..MaxRun }

InitMerge ==
  /\ request \in { [tool |-> "direct", hasBody |-> TRUE,
                    content |-> Val(HtmlOf(sh)), mentions |-> MentionsOf(sh),
                    shape |-> sh] : sh \in RunShapes }
  /\ content = request.content
  /\ mentions = request.mentions
  /\ format = "markdown"
  /\ pc = "mergeCalled"
  /\ preprocessed = Unset
  /\ result = Unset
  /\ ConcIdle
  /\ ToolIdle
  /\ GraphIdle
  /\ SessIdle
  /\ LoopIdle

\* preprocessed = mergeConsecutiveMentions(preprocessed, mentions), line 139
Reconcile ==
  /\ pc = "mergeCalled"
  /\ preprocessed' = Val(mergeConsecutiveMentions(content.val, mentions.val))
  /\ pc' = "mergeReturned"
  /\ UNCHANGED << request, content, mentions, format, result >>
  /\ UNCHANGED notConvVars

\* the function applied to its own output, with the same array
ReconcileAgain ==
  /\ pc = "mergeReturned"
  /\ result' = Val(mergeConsecutiveMentions(preprocessed.val, mentions.val))
  /\ pc' = "mergeRepeated"
  /\ UNCHANGED << request, content, mentions, format, preprocessed >>
  /\ UNCHANGED notConvVars

NextMerge == Reconcile \/ ReconcileAgain

SpecMerge == InitMerge /\ [][NextMerge]_vars

\* the reconciliation pass has returned
Reconciled == pc \in {"mergeReturned", "mergeRepeated"}

\* the first spans of the runs of the body
RunStarts == {i \in 1..shape.n : RunStart(i) = i}

\* ------------------------------------------------------------------------
\* C23  The reconciliation pass groups the spans, in document order, into
\* maximal runs: after it no two consecutive spans that resolve to the same
\* user are separated by exactly &nbsp;, runs of different users stay
\* separate (spans A A B B give exactly two spans), and every run is
\* exactly one span, with the id of its first span and its texts joined.
\* ------------------------------------------------------------------------
C23_MaximalRuns ==
  Reconciled =>
    LET out == preprocessed.val
        tags == tagsOf(out, mentions.val)
    IN  /\ \A i \in 1..(Len(tags) - 1) :
             ~ /\ Substring(out, tags[i].end, tags[i + 1].start)
                    = << "&nbsp;" >>
               /\ tags[i].userId \in Users
               /\ tags[i].userId = tags[i + 1].userId
        /\ Len(tags) = Cardinality(RunStarts)
        /\ \A i \in RunStarts :
             \E t \in 1..Len(tags) :
               /\ tags[t].id = String(i - 1)
               /\ tags[t].text = RunNames(i, RunEnd(i))
               /\ t = Cardinality({j \in RunStarts : j <= i})

\* spans A A B B, separated by &nbsp;, have become two spans
C23_Witness ==
  /\ pc = "mergeReturned"
  /\ shape.n = 4
  /\ shape.who = << "user-A", "user-A", "user-B", "user-B" >>
  /\ shape.sep = << "nbsp", "nbsp", "nbsp" >>
  /\ shape.layout = "bare"
  /\ preprocessed.val =
       AtTag(1, << "Brunno", " ", "Joyran" >>) \o << "&nbsp;" >>
         \o AtTag(3, << "Pereira", " ", "Soares" >>)

\* the body after the pass, told from the shape: from span k on, every run
\* of two or more spans is one element and everything else is as written
RECURSIVE ExpectedFrom(_)
ExpectedFrom(k) ==
  IF k > shape.n THEN << >>
  ELSE LET j == RunEnd(k)
       IN (IF j > k THEN AtTag(k, RunNames(k, j))
           ELSE AtTag(k, << NameOf(k) >>))
          \o (IF j < shape.n THEN SepOf(shape.sep[j]) ELSE << >>)
          \o ExpectedFrom(j + 1)

\* what stands before the first span and after the last one
Before == IF shape.layout = "p" THEN << "<p", ">" >> ELSE << >>
After == IF shape.layout = "p" THEN << "&nbsp;", "hello", "</p>" >> ELSE << >>

\* ------------------------------------------------------------------------
\* C25  The reconciliation pass changes only the ranges of merged runs:
\* what stands before, between and after the merged runs is in the output
\* unchanged and in the same order, and a run of one span is copied as it
\* was written.
\* ------------------------------------------------------------------------
C25_OnlyMergedRunsChange ==
  Reconciled =>
    /\ preprocessed.val = Before \o ExpectedFrom(1) \o After
    /\ \A k \in 1..shape.n :
         RunStart(k) = k /\ RunEnd(k) = k =>
           Contains(preprocessed.val, AtTag(k, << NameOf(k) >>))
    /\ (\A k \in 1..shape.n : RunEnd(k) = k) =>
         preprocessed.val = content.val

\* a lone span, a merged run and a lone span inside a paragraph
C25_Witness ==
  /\ pc = "mergeReturned"
  /\ shape.n = 4
  /\ shape.who = << "user-B", "user-A", "user-A", "noentry" >>
  /\ shape.sep = << "space", "nbsp", "none" >>
  /\ shape.layout = "p"
  /\ preprocessed.val =
       << "<p", ">" >> \o AtTag(1, << "Brunno" >>) \o << " " >>
         \o AtTag(2, << "Joyran", " ", "Pereira" >>)
         \o AtTag(4, << "Soares" >>) \o << "&nbsp;", "hello", "</p>" >>

\* ------------------------------------------------------------------------
\* C28  The reconciliation pass is idempotent: mergeConsecutiveMentions
\* applied to its own output with the same mentions array returns that
\* output unchanged.
\* ------------------------------------------------------------------------
C28_MergeIsIdempotent ==
  pc = "mergeRepeated" => result.val = preprocessed.val

\* two runs were merged by the first application, none by the second
C28_Witness ==
  /\ pc = "mergeRepeated"
  /\ shape.n = 4
  /\ Linked(1) /\ ~Linked(2) /\ Linked(3)
  /\ preprocessed.val # content.val
  /\ result.val = preprocessed.val

\* ------------------------------------------------------------------------
\* C24  htmlToMarkdown runs its steps in one fixed order on every call:
\* the reconciliation (only when mentions are supplied), then the separator
\* between adjacent spans, then the attachment placeholders, then the
\* conversion, then the non-breaking spaces and the trim. At every position
\* the string is the outcome of all earlier steps on the whole input, and
\* of no later one.
\* ------------------------------------------------------------------------
C24_StepsInOrder ==
  LET merged == mergeStep(content.val, mentions)
      separated == separateAdjacentMentions(merged)
      rewritten == replaceAttachments(separated)
  IN  /\ pc \in {"htmlToMarkdown", "merge"} =>
           preprocessed = Unset /\ result = Unset
      /\ pc = "separate" =>
           /\ preprocessed = Val(merged)
           /\ (IsNullish(mentions) => preprocessed = content)
           /\ result = Unset
      /\ pc = "attachments" =>
           preprocessed = Val(separated) /\ result = Unset
      /\ pc = "turndown" =>
           preprocessed = Val(rewritten) /\ result = Unset
      /\ (pc = "done" /\ preprocessed # Unset) =>
           /\ preprocessed = Val(rewritten)
           /\ result = Val(Trim(normalizeNbsp(turndown(rewritten))))

\* a call that needed every step: a run to merge, then two spans with
\* nothing between them
C24_Witness ==
  /\ MentionBody /\ Done /\ HasMentions
  /\ shape.layout = "bare"
  /\ shape.n = 3 /\ Linked(1) /\ shape.sep[2] = "none" /\ DifferentUsers(2)
  /\ preprocessed.val # separateAdjacentMentions(content.val)
  /\ preprocessed.val # mergeStep(content.val, mentions)
  /\ result.val # << >>


\* ------------------------------------------------------------------------
\* MCPSessionManager (src/unnamed/part_009): one MCP client per user, closed
\* by a timeout after SESSION_TIMEOUT_MS without activity.
\*
\* An async method runs without interruption up to its next await; each
\* action below is one such stretch. A session is named by the index of its
\* client in clients (0 where the map has no entry); a timeout handle by its
\* index in timers. The 15 minutes are not measured: a pending timeout may
\* fire whenever it has not been cleared.
\* ------------------------------------------------------------------------

\* how many calls the bot makes on the manager
MaxSessionCalls == 3

\* the user ids of the callers
SessionUsers == {"u1", "u2"}

\* the manager after its constructor (lines 17-26): both maps empty
InitSessions ==
  /\ ConvIdle
  /\ ConcIdle
  /\ ToolIdle
  /\ GraphIdle
  /\ LoopIdle
  /\ manager = [sessions |-> [u \in SessionUsers |-> 0],
                sessionTimeouts |-> [u \in SessionUsers |-> 0]]
  /\ timers = << >>
  /\ clients = << >>
  /\ acts = << >>

\* clearTimeout(handle): a pending timeout never fires; on any other
\* handle it does nothing
clearTimeout(ts, handle) ==
  IF handle # 0 /\ ts[handle].state = "pending"
  THEN [ts EXCEPT ![handle].state = "cleared"]
  ELSE ts

\* _refreshSessionTimeout(userId), lines 203-217: the handle stored for the
\* user is cleared, a new timeout is set and its handle stored
refreshSessionTimeout(m, ts, userId) ==
  LET existingTimeout == m.sessionTimeouts[userId]
      cleared == clearTimeout(ts, existingTimeout)
      timeout == Len(ts) + 1
  IN [manager |-> [m EXCEPT !.sessionTimeouts[userId] = timeout],
      timers |-> Append(cleared, [userId |-> userId, state |-> "pending"])]

\* the calls the bot has made itself (the others are timeout callbacks)
CallsMade == Cardinality({i \in DOMAIN acts : acts[i].by = "caller"})

\* an activation of one of the manager's async methods
Activation(op, userId, at, session, by) ==
  [op |-> op, userId |-> userId, pc |-> at, session |-> session, by |-> by]

\* getSession(userId) up to its first await or its return (lines 34-75):
\* an existing session is returned and its timeout refreshed, otherwise a
\* client and a transport are constructed and connect is awaited
GetSessionCall(userId) ==
  /\ CallsMade < MaxSessionCalls
  /\ IF manager.sessions[userId] # 0
     THEN LET r == refreshSessionTimeout(manager, timers, userId)
          IN /\ manager' = r.manager
             /\ timers' = r.timers
             /\ clients' = clients
             /\ acts' = Append(acts, Activation("getSession", userId,
                          "returned", manager.sessions[userId], "caller"))
     ELSE /\ clients' = Append(clients, [userId |-> userId,
                                         state |-> "connecting",
                                         session |-> FALSE,
                                         calledLate |-> FALSE])
          /\ acts' = Append(acts, Activation("getSession", userId,
                                   "connect", Len(clients) + 1, "caller"))
          /\ UNCHANGED << manager, timers >>
  /\ UNCHANGED notSessVars

\* await client.connect(transport) settles (line 75); a rejection goes to
\* the catch of line 102, which throws
ConnectSettled(i) ==
  /\ i \in DOMAIN acts
  /\ acts[i].op = "getSession"
  /\ acts[i].pc = "connect"
  /\ \E ok \in BOOLEAN :
       IF ok
       THEN /\ clients' = [clients EXCEPT ![acts[i].session].state = "connected"]
            /\ acts' = [acts EXCEPT ![i].pc = "listTools"]
       ELSE /\ clients' = [clients EXCEPT ![acts[i].session].state = "failed"]
            /\ acts' = [acts EXCEPT ![i].pc = "threw"]
  /\ UNCHANGED << manager, timers >>
  /\ UNCHANGED notSessVars

\* await client.listTools() settles (line 79); the session object is
\* built, stored under the user id and its timeout set (lines 85-100). A
\* rejection goes to the catch of line 102: the client stays connected
ListToolsSettled(i) ==
  /\ i \in DOMAIN acts
  /\ acts[i].op = "getSession"
  /\ acts[i].pc = "listTools"
  /\ \E ok \in BOOLEAN :
       IF ok
       THEN LET stored == [manager EXCEPT
                             !.sessions[acts[i].userId] = acts[i].session]
                r == refreshSessionTimeout(stored, timers, acts[i].userId)
            IN /\ manager' = r.manager
               /\ timers' = r.timers
               /\ clients' = [clients EXCEPT ![acts[i].session].session = TRUE]
               /\ acts' = [acts EXCEPT ![i].pc = "returned"]
       ELSE /\ acts' = [acts EXCEPT ![i].pc = "threw"]
            /\ UNCHANGED << manager, timers, clients >>
  /\ UNCHANGED notSessVars

\* executeTool(userId, ...) up to its await (lines 115-133): without a
\* session it throws; otherwise the timeout is refreshed and callTool is
\* sent on the session's client
ExecuteToolCall(userId) ==
  /\ CallsMade < MaxSessionCalls
  /\ LET session == manager.sessions[userId]
     IN IF session = 0
        THEN /\ acts' = Append(acts, Activation("executeTool", userId,
                                      "threw", 0, "caller"))
             /\ UNCHANGED << manager, timers, clients >>
        ELSE LET r == refreshSessionTimeout(manager, timers, userId)
             IN /\ manager' = r.manager
                /\ timers' = r.timers
                /\ clients' = [clients EXCEPT ![session].calledLate =
                                 @ \/ clients[session].state \in
                                        {"closing", "closed"}]
                /\ acts' = Append(acts, Activation("executeTool", userId,
                                         "callTool", session, "caller"))
  /\ UNCHANGED notSessVars

\* await session.client.callTool(...) settles (line 130): the result is
\* returned or the catch of line 139 throws; the manager is not touched
CallToolSettled(i) ==
  /\ i \in DOMAIN acts
  /\ acts[i].op = "executeTool"
  /\ acts[i].pc = "callTool"
  /\ \E at \in {"returned", "threw"} : acts' = [acts EXCEPT ![i].pc = at]
  /\ UNCHANGED << manager, timers, clients >>
  /\ UNCHANGED notSessVars

\* closeSession(userId) up to its await (lines 163-182): without a session
\* it returns; otherwise the stored timeout is cleared and removed and the
\* client's close is started
closeSessionCalled(userId, by, ts) ==
  LET session == manager.sessions[userId]
      timeout == manager.sessionTimeouts[userId]
  IN IF session = 0
     THEN /\ acts' = Append(acts, Activation("closeSession", userId,
                                   "returned", 0, by))
          /\ timers' = ts
          /\ UNCHANGED << manager, clients >>
     ELSE /\ timers' = clearTimeout(ts, timeout)
          /\ manager' = [manager EXCEPT !.sessionTimeouts[userId] = 0]
          /\ clients' = [clients EXCEPT ![session].state =
                           IF @ = "closed" THEN @ ELSE "closing"]
          /\ acts' = Append(acts, Activation("closeSession", userId,
                                   "close", session, by))

\* the bot calls closeSession (directly or through closeAll, lines 255-264)
CloseSessionCall(userId) ==
  /\ CallsMade < MaxSessionCalls
  /\ closeSessionCalled(userId, "caller", timers)
  /\ UNCHANGED notSessVars

\* a pending timeout fires: its callback calls closeSession (lines 210-213)
TimeoutFires(t) ==
  /\ t \in DOMAIN timers
  /\ timers[t].state = "pending"
  /\ closeSessionCalled(timers[t].userId, "timer",
                        [timers EXCEPT ![t].state = "fired"])
  /\ UNCHANGED notSessVars

\* await session.client.close() settles (lines 181-185; a rejection is
\* caught and logged), then the user's entry is removed (line 188)
CloseSettled(i) ==
  /\ i \in DOMAIN acts
  /\ acts[i].op = "closeSession"
  /\ acts[i].pc = "close"
  /\ clients' = [clients EXCEPT ![acts[i].session].state = "closed"]
  /\ manager' = [manager EXCEPT !.sessions[acts[i].userId] = 0]
  /\ acts' = [acts EXCEPT ![i].pc = "returned"]
  /\ UNCHANGED timers
  /\ UNCHANGED notSessVars

NextSessions ==
  \/ \E u \in SessionUsers : GetSessionCall(u)
  \/ \E i \in 1..(2 * MaxSessionCalls) : ConnectSettled(i)
  \/ \E i \in 1..(2 * MaxSessionCalls) : ListToolsSettled(i)
  \/ \E u \in SessionUsers : ExecuteToolCall(u)
  \/ \E i \in 1..(2 * MaxSessionCalls) : CallToolSettled(i)
  \/ \E u \in SessionUsers : CloseSessionCall(u)
  \/ \E t \in 1..MaxSessionCalls : TimeoutFires(t)
  \/ \E i \in 1..(2 * MaxSessionCalls) : CloseSettled(i)

SpecSessions == InitSessions /\ [][NextSessions]_vars


\* ------------------------------------------------------------------------
\* Claims about the MCPSessionManager
\* ------------------------------------------------------------------------

\* the sessions of a user that exist: the session object has been built
\* (lines 85-92) and its client has not been closed
SessionsOf(userId) ==
  {k \in DOMAIN clients : /\ clients[k].userId = userId
                          /\ clients[k].session
                          /\ clients[k].state # "closed"}

\* C21: at any time at most one MCP session (client and spawned transport)
\* exists for a user id, and a session that getSession has returned for the
\* user is, while it exists, the one the map holds for that user -- also
\* when two getSession calls for the same user interleave.
C21_OneSessionPerUser ==
  /\ \A u \in SessionUsers : Cardinality(SessionsOf(u)) <= 1
  /\ \A i \in DOMAIN acts :
       (/\ acts[i].op = "getSession"
        /\ acts[i].pc = "returned"
        /\ acts[i].session \in SessionsOf(acts[i].userId))
       => manager.sessions[acts[i].userId] = acts[i].session


\* the timeout handle stored for the user is still pending
PendingHandle(userId) ==
  /\ manager.sessionTimeouts[userId] # 0
  /\ timers[manager.sessionTimeouts[userId]].state = "pending"

\* C29: in every reachable state every pending timeout handle stored in
\* sessionTimeouts belongs to a user that has a session in sessions, and no
\* tool call has been sent on a client whose close had started -- also when
\* executeTool or getSession interleaves with a closeSession of the user
\* that is awaiting client.close().
C29_HandlesBelongToSessions ==
  /\ \A u \in SessionUsers : PendingHandle(u) => manager.sessions[u] # 0
  /\ \A k \in DOMAIN clients : ~ clients[k].calledLate


\* the countdowns pending for a user
PendingTimeouts(userId) ==
  {t \in DOMAIN timers : /\ timers[t].userId = userId
                         /\ timers[t].state = "pending"}

\* no activity is left: every call has returned or thrown and no timeout
\* is pending, so nothing more will happen to any session
NoActivityLeft ==
  /\ \A i \in DOMAIN acts : acts[i].pc \in {"returned", "threw"}
  /\ \A u \in SessionUsers : PendingTimeouts(u) = {}

\* C22: at most one countdown is pending per user, and a session that
\* receives no further activity is closed and removed from the session map:
\* once no call is in flight and no countdown is pending, no session exists
\* any more and the map is empty.
C22_IdleSessionsAreClosed ==
  /\ \A u \in SessionUsers : Cardinality(PendingTimeouts(u)) <= 1
  /\ NoActivityLeft =>
       \A u \in SessionUsers : SessionsOf(u) = {} /\ manager.sessions[u] = 0


\* ------------------------------------------------------------------------
\* get_chat_messages (src/unnamed/part_000 236-423): the page loop.
\*
\* A message is modelled by whether the client-side date filter of lines
\* 362-379 keeps it; a page by the messages of its value array; a next link
\* by "undefined" (absent), "" or "next" (a URL).
\* ------------------------------------------------------------------------

\* the largest limit the caller passes (the schema allows 1..2000)
MaxLimit == 3

\* the largest number of messages the server puts on one page
MaxPageLen == 2

\* const maxPages = 100 (line 317)
maxPages == 100

\* the value arrays a response can carry (an absent value adds nothing)
Pages ==
  UNION {[1..n -> BOOLEAN] : n \in 0..MaxPageLen}

\* the @odata.nextLink values a response can carry
NextLinks == {"undefined", "", "next"}

\* the loop condition of line 332 without its test of the limit
loopConditionWithoutLimit(p) ==
  /\ p.nextLink \notin {"undefined", ""}
  /\ p.pageCount < maxPages

\* the loop condition of line 332
loopCondition(p) ==
  /\ p.nextLink \notin {"undefined", ""}
  /\ Len(p.allMessages) < p.effectiveLimit
  /\ p.pageCount < maxPages

\* array.slice(0, n)
slice(array, n) ==
  SubSeq(array, 1, IF n < Len(array) THEN n ELSE Len(array))

\* the filter of lines 362-379: without since and until every message stays
filterByDate(allMessages, dated) ==
  IF dated THEN SelectSeq(allMessages, LAMBDA keeps : keeps) ELSE allMessages

\* the handler has been called and has sent its first request (lines 269-322)
InitPaging ==
  /\ ConvIdle
  /\ ConcIdle
  /\ ToolIdle
  /\ GraphIdle
  /\ SessIdle
  /\ upload = << >>
  /\ \E limit \in 1..MaxLimit, fetchAll, dated \in BOOLEAN :
       paging = [effectiveLimit |-> limit, effectiveFetchAll |-> fetchAll,
                 dated |-> dated, pc |-> "first", allMessages |-> << >>,
                 nextLink |-> "undefined", pageCount |-> 0,
                 followUps |-> 0, needless |-> FALSE,
                 outcome |-> "none", messages |-> << >>]

\* the first request settles (lines 320-326, 330); a rejection goes to the
\* catch of line 412
FirstPage ==
  /\ paging # << >>
  /\ paging.pc = "first"
  /\ \/ \E page \in Pages, link \in NextLinks :
          paging' = [paging EXCEPT
                       !.allMessages = page,
                       !.nextLink = IF paging.effectiveFetchAll
                                    THEN link ELSE "undefined",
                       !.pc = "loop"]
     \/ paging' = [paging EXCEPT !.pc = "done", !.outcome = "error"]
  /\ UNCHANGED << convVars, concVars, toolVars, graphVars, sessVars, upload >>

\* one turn of the loop of lines 332-347: a follow-up request and its
\* response; a rejection leaves the loop (lines 343-346)
FollowPage ==
  /\ paging # << >>
  /\ paging.pc = "loop"
  /\ paging.effectiveFetchAll
  /\ loopCondition(paging)
  /\ LET asked == [paging EXCEPT
                     !.pageCount = @ + 1,
                     !.followUps = @ + 1,
                     !.needless = @ \/ paging.nextLink \in {"undefined", ""}
                                    \/ Len(paging.allMessages)
                                         >= paging.effectiveLimit]
     IN \/ \E page \in Pages, link \in NextLinks :
             paging' = [asked EXCEPT !.allMessages = @ \o page,
                                     !.nextLink = link]
        \/ paging' = [asked EXCEPT !.pc = "after"]
  /\ UNCHANGED << convVars, concVars, toolVars, graphVars, sessVars, upload >>

\* the loop is not entered or is left (lines 329, 332)
LeaveLoop ==
  /\ paging # << >>
  /\ paging.pc = "loop"
  /\ ~ (paging.effectiveFetchAll /\ loopCondition(paging))
  /\ paging' = [paging EXCEPT !.pc = "after"]
  /\ UNCHANGED << convVars, concVars, toolVars, graphVars, sessVars, upload >>

\* lines 350-411: nothing collected, or the filtered messages cut to the
\* limit
ReturnMessages ==
  /\ paging # << >>
  /\ paging.pc = "after"
  /\ IF Len(paging.allMessages) = 0
     THEN paging' = [paging EXCEPT !.pc = "done", !.outcome = "empty"]
     ELSE paging' = [paging EXCEPT
                       !.pc = "done",
                       !.outcome = "messages",
                       !.messages = slice(filterByDate(paging.allMessages,
                                                       paging.dated),
                                          paging.effectiveLimit)]
  /\ UNCHANGED << convVars, concVars, toolVars, graphVars, sessVars, upload >>

NextPaging ==
  \/ FirstPage
  \/ FollowPage
  \/ LeaveLoop
  \/ ReturnMessages

SpecPaging == InitPaging /\ [][NextPaging]_vars

\* what is left to do: the turns the loop may still take, then the steps
\* after it
Remaining(p) ==
  IF p = << >> THEN 0
  ELSE CASE p.pc = "first" -> maxPages + 3
         [] p.pc = "loop"  -> (maxPages - p.pageCount) + 2
         [] p.pc = "after" -> 1
         [] OTHER          -> 0

\* C26: get_chat_messages always terminates: every step brings it nearer
\* to its return; it issues at most 100 follow-up page requests (none
\* without fetchAll), none once a response carried no @odata.nextLink or
\* the collected messages have reached the limit, and the messages array
\* it returns never has more than limit entries.
C26_PagingTerminates ==
  /\ [](/\ paging.followUps <= maxPages
        /\ paging.followUps = paging.pageCount
        /\ (~ paging.effectiveFetchAll => paging.followUps = 0)
        /\ ~ paging.needless
        /\ Len(paging.messages) <= paging.effectiveLimit)
  /\ [][Remaining(paging') < Remaining(paging)]_vars

\* the loop has been cut at the hundredth follow-up request and the handler
\* has returned the messages it had
C26_Witness ==
  /\ paging.pc = "done"
  /\ paging.outcome = "messages"
  /\ paging.followUps = maxPages
  /\ paging.nextLink = "next"
  /\ Len(paging.messages) < paging.effectiveLimit


\* ------------------------------------------------------------------------
\* uploadLargeFile (src/unnamed/part_005 130-191): the chunk loop.
\*
\* The buffer is modelled by its length; a chunk by the byte range its
\* Content-Range header names, the Content-Length sent with it and the
\* status it was answered with (0 where fetch itself rejected).
\* ------------------------------------------------------------------------

\* const SIMPLE_UPLOAD_MAX_SIZE = 4 * 1024 * 1024 (line 6)
SIMPLE_UPLOAD_MAX_SIZE == 4194304

\* const UPLOAD_CHUNK_SIZE = 320 * 1024 * 10 (line 9)
UPLOAD_CHUNK_SIZE == 3276800

\* the largest file, in whole chunks
MaxChunks == 4

\* the lengths of the buffers uploadLargeFile is called with: its callers
\* (lines 221-223, 256-258) pass only files above SIMPLE_UPLOAD_MAX_SIZE
FileSizes ==
  {SIMPLE_UPLOAD_MAX_SIZE + 1} \cup
  {k * UPLOAD_CHUNK_SIZE + r : k \in 2..MaxChunks, r \in {-1, 0, 1}}

\* the statuses a chunk is answered with
Statuses == {200, 201, 202, 500}

\* Response.ok
ok(status) == status >= 200 /\ status <= 299

\* the end of a chunk without the cut at the end of the file
chunkEndUncut(offset, fileSize) == offset + UPLOAD_CHUNK_SIZE

\* const chunkEnd = Math.min(offset + UPLOAD_CHUNK_SIZE, fileSize) (line 157)
chunkEnd(offset, fileSize) ==
  IF offset + UPLOAD_CHUNK_SIZE < fileSize
  THEN offset + UPLOAD_CHUNK_SIZE ELSE fileSize

\* fileBuffer.subarray(begin, end).length: both ends are cut to the buffer
subarrayLength(fileSize, begin, end) ==
  LET e == IF end < fileSize THEN end ELSE fileSize
  IN IF begin < e THEN e - begin ELSE 0

\* the PUT of lines 159-168 for the chunk at offset, answered with status
ChunkSent(offset, fileSize, status) ==
  [first |-> offset,
   last |-> chunkEnd(offset, fileSize) - 1,
   total |-> fileSize,
   length |-> subarrayLength(fileSize, offset, chunkEnd(offset, fileSize)),
   status |-> status]

\* uploadLargeFile has been called and has asked for an upload session
\* (lines 130-145)
InitUpload ==
  /\ ConvIdle
  /\ ConcIdle
  /\ ToolIdle
  /\ GraphIdle
  /\ SessIdle
  /\ paging = << >>
  /\ \E fileSize \in FileSizes :
       upload = [fileSize |-> fileSize, pc |-> "createUploadSession",
                 offset |-> 0, sent |-> << >>, outcome |-> "none"]

\* the session request settles (lines 139-153): without an uploadUrl, or
\* on a rejection, the upload throws
SessionCreated ==
  /\ upload # << >>
  /\ upload.pc = "createUploadSession"
  /\ \E hasUrl \in BOOLEAN :
       upload' = IF hasUrl
                 THEN [upload EXCEPT !.pc = "loop"]
                 ELSE [upload EXCEPT !.pc = "done", !.outcome = "threw"]
  /\ UNCHANGED << convVars, concVars, toolVars, graphVars, sessVars, paging >>

\* one turn of the loop of lines 156-181: the chunk is sent; a rejected
\* fetch or a non-OK answer throws (lines 170-173), otherwise the offset
\* moves to the end of the chunk
SendChunk ==
  /\ upload # << >>
  /\ upload.pc = "loop"
  /\ upload.offset < upload.fileSize
  /\ \E status \in Statuses \cup {0} :
       LET chunk == ChunkSent(upload.offset, upload.fileSize, status)
       IN upload' =
            IF ok(status)
            THEN [upload EXCEPT
                    !.sent = Append(@, chunk),
                    !.offset = chunkEnd(upload.offset, upload.fileSize)]
            ELSE [upload EXCEPT
                    !.sent = Append(@, chunk),
                    !.pc = "done",
                    !.outcome = "threw"]
  /\ UNCHANGED << convVars, concVars, toolVars, graphVars, sessVars, paging >>

\* the loop is left (lines 183-190): the last response is read; without
\* webUrl and eTag the upload throws
FinishUpload ==
  /\ upload # << >>
  /\ upload.pc = "loop"
  /\ ~ (upload.offset < upload.fileSize)
  /\ IF upload.sent = << >>
     THEN upload' = [upload EXCEPT !.pc = "done", !.outcome = "threw"]
     ELSE \E hasMetadata \in BOOLEAN :
            upload' = [upload EXCEPT
                         !.pc = "done",
                         !.outcome = IF hasMetadata
                                     THEN "returned" ELSE "threw"]
  /\ UNCHANGED << convVars, concVars, toolVars, graphVars, sessVars, paging >>

NextUpload ==
  \/ SessionCreated
  \/ SendChunk
  \/ FinishUpload

SpecUpload == InitUpload /\ [][NextUpload]_vars

\* C27: the chunks sent are in ascending offset order, each non-empty and
\* at most 3,276,800 bytes, contiguous and non-overlapping from byte 0, each
\* with the Content-Length of its range and the file size as total; once
\* all are sent they cover exactly bytes 0 to fileSize-1; a chunk answered
\* with a non-OK status is the last one sent and the upload fails.
C27_ChunksCoverTheFile ==
  LET s == upload.sent
  IN /\ \A k \in DOMAIN s :
          /\ s[k].first <= s[k].last
          /\ s[k].last - s[k].first + 1 <= 3276800
          /\ s[k].length = s[k].last - s[k].first + 1
          /\ s[k].total = upload.fileSize
          /\ s[k].last <= upload.fileSize - 1
          /\ s[k].first = IF k = 1 THEN 0 ELSE s[k - 1].last + 1
          /\ ~ ok(s[k].status) =>
               k = Len(s) /\ upload.pc = "done" /\ upload.outcome = "threw"
     /\ (upload.outcome = "returned" \/ ~ (upload.offset < upload.fileSize))
          => s # << >> /\ s[Len(s)].last = upload.fileSize - 1

\* a file whose last chunk is shorter than the others has been uploaded
C27_Witness ==
  /\ upload.outcome = "returned"
  /\ Len(upload.sent) = 3
  /\ upload.sent[3].length = 1

\* an upload has failed at its second chunk
C27_WitnessFailed ==
  /\ upload.outcome = "threw"
  /\ Len(upload.sent) = 2
  /\ upload.sent[2].status = 500
  /\ upload.sent[2].last < upload.fileSize - 1

=============================================================================
